---- MODULE Spec2Model ----
(***************************************************************************)
(* Model of the document backend in src/index.js (second, current copy of  *)
(* the server, lines 331-1541): the analysis client analyzePDF, the answer *)
(* generation client generateAnswerWithAzureOpenAI and the workbook fill   *)
(* job (POST /fill-excel, processFillJob, GET /fill-excel-progress).       *)
(*                                                                         *)
(* Strings are sequences of one-character strings so that trimming and the *)
(* marker regular expression are computed, not assumed.                    *)
(***************************************************************************)
EXTENDS Integers, Sequences, FiniteSets, TLC

\* ------------------------------------------------------------------ bounds
MaxRows == 1        \* rows per worksheet of an uploaded template
MaxJobs == 1        \* POST /fill-excel requests made in one behaviour
MaxLines == 1       \* lines per page of an analysis response
MaxExports == 1     \* table exports made in one behaviour
MaxCallbacks == 2   \* poll callbacks of the page in flight at one time
MaxFiles == 3       \* files dropped on or selected in the page in one behaviour
\* --------------------------------------------------------- program constants
maxAttempts == 3    \* generateAnswerWithAzureOpenAI: attempts per question
maxRetries == 3     \* analyzePDF: retries after HTTP 429
maxPollAttempts == 30   \* analyzePDF: status polls per submit+poll cycle

maxSize == 52428800 \* validateFile: 50 * 1024 * 1024 bytes

\* ------------------------------------------------------------- characters
Upper == {"A"}                       \* [A-Z]
Digit == {"1"}                       \* \d
Space == {" ", "\n"}                 \* whitespace removed by String.prototype.trim
WordChar == {"A", "1", "q"}          \* \w : letters, digits, underscore

RECURSIVE TrimLeft(_)
TrimLeft(s) ==
    IF s = <<>> THEN s
    ELSE IF Head(s) \in Space THEN TrimLeft(Tail(s)) ELSE s

RECURSIVE TrimRight(_)
TrimRight(s) ==
    IF s = <<>> THEN s
    ELSE IF s[Len(s)] \in Space THEN TrimRight(SubSeq(s, 1, Len(s) - 1)) ELSE s

\* String(x).trim()
Trim(s) == TrimRight(TrimLeft(s))

\* /\b([A-Z]\.\d+)\b/ : an uppercase letter at a word boundary, a period, one
\* or more digits, and a word boundary after the digits, anywhere in the text.
markerCellRegex(s) ==
    \E i \in 1..Len(s) :
        /\ s[i] \in Upper
        /\ (i = 1 \/ s[i - 1] \notin WordChar)
        /\ i + 1 <= Len(s)
        /\ s[i + 1] = "."
        /\ \E k \in (i + 2)..Len(s) :
              /\ \A d \in (i + 2)..k : s[d] \in Digit
              /\ (k = Len(s) \/ s[k + 1] \notin WordChar)

\* the pre-scan without the test for section markers
ScanCountsNoSkip(cellText) ==
    Trim(cellText) # <<>>

\* pre-scan of POST /fill-excel: is the row counted in total?
ScanCounts(cellText) ==
    LET rawA == Trim(cellText) IN
    IF rawA = <<>> THEN FALSE
    ELSE ~markerCellRegex(rawA)

\* the fill pass without the skip of section-marker rows
FillAnswersNoSkip(cellText) ==
    Trim(cellText) # <<>>

\* fill pass of processFillJob: is the row answered?
FillAnswers(cellText) ==
    LET rawA == Trim(cellText) IN
    IF rawA = <<>> THEN FALSE
    ELSE IF markerCellRegex(rawA) THEN FALSE
    ELSE TRUE

\* ------------------------------------------------------------- workbooks
\* first-column texts used in the modelled templates
TxtBlank == <<" ">>
TxtMarker == <<"A", ".", "1", " ", "q">>
TxtQuestion == <<"q", " ", "A">>

\* further first-column texts the two classification rules are compared on
ProbeTexts ==
    { <<>>, <<" ", " ">>, <<" ", "A", ".", "1", " ">>, <<"q", " ", "A", ".", "1">>,
      <<"A", ".", "1", "q">>, <<"q", "A", ".", "1">>, <<"A", ".", "1", "1">>,
      <<"A", ".">>, <<"A", "1">>, <<".", "1">>, <<"A", ".", "1", ".", "q">>,
      <<"A", "A", ".", "1">>, <<"q", ".", "1">> }
RowTexts == {TxtBlank, TxtMarker, TxtQuestion}

\* a worksheet is the sequence of its rows' first-column texts (rowCount = Len)
Worksheets == [1..MaxRows -> RowTexts]
\* the modelled templates have two worksheets: the first with MaxRows rows,
\* the second with one row
SheetNumbers == 1..2
LastWorksheets == [1..1 -> RowTexts]
Workbooks ==
    {wb \in [SheetNumbers -> Worksheets \cup LastWorksheets] :
        wb[1] \in Worksheets /\ wb[2] \in LastWorksheets}

\* the rows in the order of the nested loops: worksheet order, then row order
RECURSIVE RowsFrom(_, _)
RowsFrom(wb, s) ==
    IF s > Len(wb) THEN <<>>
    ELSE [r \in 1..Len(wb[s]) |-> [sheet |-> s, row |-> r, text |-> wb[s][r]]]
         \o RowsFrom(wb, s + 1)

Rows(wb) == RowsFrom(wb, 1)

\* totalQuestions of the pre-scan
TotalQuestions(wb) ==
    Cardinality({i \in 1..Len(Rows(wb)) : ScanCounts(Rows(wb)[i].text)})


\* ------------------------------------------------------------------ state
FileIds == {"f1"}                    \* multer file names of uploaded PDFs
\* a property name every plain object ({}) inherits from Object.prototype:
\* documentAnalysis[InheritedKey] is the function Object, which is truthy
InheritedKey == "constructor"
NoId == ""                           \* an id missing from the request (falsy)
RequestFileIds == FileIds \cup {InheritedKey, NoId}
Undefined == "<undefined>"           \* JavaScript undefined
ExcelIds == {1}                      \* createId('excel') values
JobIds == 1..MaxJobs                 \* createId('fillJob') values, in creation order
\* a file with the PK header: a workbook ExcelJS can read, or one it cannot
XlsxFile(wb) == [header |-> "PK", readable |-> TRUE, sheets |-> wb]
Corrupt == [header |-> "PK", readable |-> FALSE, sheets |-> <<>>]
TemplateFiles == {XlsxFile(wb) : wb \in Workbooks} \cup {Corrupt}
\* a file whose first bytes are not 0x50 0x4B, such as an .xls workbook
NotZip == [header |-> "other", readable |-> FALSE, sheets |-> <<>>]
NULL == "<null>"                     \* JavaScript null
\* null in the place of a job's result {filledId, filename, downloadUrl}
NoResult == [filledId |-> 0, filename |-> <<>>]
AnswerText == "answer"               \* the answer of a normalized payload
Sentinel == "NOT FOUND"              \* the answer of the sentinel payload

VARIABLES
    documentAnalysis,   \* fileId -> [filename, content]
    excelTemplates,     \* excelId -> [filename, path]
    disk,               \* path -> content of the file under uploads/
    filledWorkbooks,    \* filledId -> [filename, cells]
    fillJobs,           \* jobId -> [status, current, total, error, result]
    fillReqs,           \* POST /fill-excel requests awaiting the pre-scan read
    task,               \* jobId -> local state of the job's processFillJob call
    openAiConfigured,   \* the AZURE_OPENAI_* variables are set and no placeholders
    requests,           \* number of POST /fill-excel requests accepted so far
    usedNames,          \* file names multer has given out (Date.now() + name)
    an,                 \* the analyzePDF call of the upload being handled
    ex,                 \* the extraction of a succeeded analysis response
    filePaths,          \* fileId -> path of the uploaded PDF
    pdfFiles,           \* fileIds whose PDF is present under uploads/
    deleted,            \* fileId -> the jobs that were processing with the document
                        \* when DELETE /files/:fileId answered success for it
    fillResponses,      \* req -> response POST /fill-excel sent after the pre-scan
    norm,               \* a call of normalizeGptAnswerPayload
    uploads,            \* fileId -> status code of the response of its POST /upload
    \* the page, src/public/script.js
    uploadQueue,        \* the files waiting to be uploaded, in the order pushed
    isUploading,        \* processUploadQueue is running
    uploading,          \* the processUploadQueue calls that are running, each
                        \* with the await it stands at and its file
    uploadLog,          \* the files offered, pushed (late: while uploading) and
                        \* sent in an upload request, in order, and those that failed
    pollInterval,       \* the interval timer of fillExcelWorkbook and its jobId
    fetches,            \* poll callbacks in flight, by the stage of their request
    downloads,          \* jobId -> clicks on the download link of its workbook
    restarted           \* the server process was started again

vars == <<documentAnalysis, excelTemplates, disk, filledWorkbooks, fillJobs,
          fillReqs, task, openAiConfigured, requests, usedNames, an, ex,
          filePaths, pdfFiles, deleted, fillResponses, norm,
          uploads, uploadQueue, isUploading, uploading, uploadLog, pollInterval,
          fetches, downloads, restarted>>

uiVars == <<uploadQueue, isUploading, uploading, uploadLog, pollInterval,
            fetches, downloads, restarted>>

docVars == <<filePaths, pdfFiles, deleted, uploads>>

NoError == [kind |-> "none", status |-> 0]

\* what a poll callback in flight waits for or holds: its request is on the
\* way to the server (sent), or fetch has settled with a progress snapshot of
\* that status, with the 404 body (notFound) or with a rejection (failed)
FetchStages == {"sent", "processing", "complete", "error", "notFound", "failed"}

\* no analysis response is being extracted
ExIdle == [pc |-> "idle"]

\* normalizeGptAnswerPayload has not been called
NormIdle == [pc |-> "idle"]

\* no analyzePDF call has been made; config is the state of the
\* AZURE_CONTENT_UNDERSTANDING_* variables
AnIdle(config) ==
    [pc |-> "idle", config |-> config, retryCount |-> 0, attempts |-> 0,
     status |-> "none", submits |-> 0, polls |-> 0, cyclePolls |-> 0,
     message |-> "", tried |-> 0, failedStatus |-> "none",
     rateLimited |-> 0, lastError |-> NoError]

\* the page as loaded: let uploadQueue = [], let isUploading = false, no
\* workbook fill started
UiInit ==
    /\ uploadQueue = <<>>
    /\ isUploading = FALSE
    /\ uploading = {}
    /\ uploadLog = [offered |-> 0, queued |-> <<>>, late |-> {}, sent |-> <<>>,
                    failed |-> {}]
    /\ pollInterval = [state |-> "none", jobId |-> 0]
    /\ fetches = [stage \in FetchStages |-> 0]
    /\ downloads = <<>>
    /\ restarted = FALSE

Init ==
    /\ documentAnalysis = <<>>
    /\ excelTemplates = <<>>
    /\ disk = <<>>
    /\ filledWorkbooks = <<>>
    /\ fillJobs = <<>>
    /\ fillReqs = {}
    /\ task = <<>>
    /\ openAiConfigured \in BOOLEAN
    /\ requests = 0
    /\ usedNames = {}
    /\ an = AnIdle("ok")
    /\ ex = ExIdle
    /\ filePaths = <<>>
    /\ pdfFiles = {}
    /\ deleted = <<>>
    /\ fillResponses = <<>>
    /\ norm = NormIdle
    /\ uploads = <<>>
    /\ UiInit

\* f with key k set to v (object property assignment)
Put(f, k, v) == [x \in (DOMAIN f) \cup {k} |-> IF x = k THEN v ELSE f[x]]

\* f without key k (delete f[k])
Remove(f, k) == [x \in (DOMAIN f) \ {k} |-> f[x]]


\* ---------------------------------------------------- uploads and deletion
\* isZipFileHeader(filePath): the first two bytes are 'P' 'K'; false when the
\* file cannot be opened
isZipFileHeader(path) == path \in DOMAIN disk /\ disk[path].header = "PK"

\* POST /upload-excel: a file that fails isZipFileHeader is unlinked, or stays
\* where multer stored it when unlinkSync throws, and nothing is registered;
\* any other file becomes a template
UploadExcel(e, content, unlinkOk) ==
    /\ e \notin DOMAIN excelTemplates
    /\ IF content.header # "PK"
       THEN /\ disk' = IF unlinkOk THEN disk ELSE Put(disk, <<"rejected", e>>, content)
            /\ UNCHANGED excelTemplates
       ELSE /\ excelTemplates' = Put(excelTemplates, e,
                                     [filename |-> "t.xlsx", path |-> <<"upload", e>>])
            /\ disk' = Put(disk, <<"upload", e>>, content)
    /\ UNCHANGED <<documentAnalysis, filledWorkbooks, fillJobs, fillReqs, task,
                   openAiConfigured, requests, usedNames, an, ex, norm, uiVars,
                   docVars, fillResponses>>

\* the ways the file of a template changes behind excelTemplates: it is
\* removed from uploads/, or written over with content that is not a ZIP file
FileChanges == {"removed", "overwritten"}

\* a file under uploads/ changes without a handler of the fill job taking part
\* (a cleanup of uploads/, an upload that multer stores under the same name)
UploadsChanged(e, change) ==
    /\ e \in DOMAIN excelTemplates
    /\ excelTemplates[e].path \in DOMAIN disk
    /\ disk[excelTemplates[e].path] # NotZip
    /\ disk' = IF change = "removed"
               THEN Remove(disk, excelTemplates[e].path)
               ELSE Put(disk, excelTemplates[e].path, NotZip)
    /\ UNCHANGED <<documentAnalysis, excelTemplates, filledWorkbooks, fillJobs,
                   fillReqs, task, openAiConfigured, requests, usedNames, an, ex, norm, uiVars,
                   docVars, fillResponses>>

\* the record POST /upload stores for an analysis that succeeded
NewAnalysis == [filename |-> "doc.pdf", content |-> "text", tables |-> "tables"]

\* POST /upload whose analyzePDF call threw, storing a record all the same
UploadFailedStores(f) ==
    /\ f \notin usedNames
    /\ usedNames' = usedNames \cup {f}
    /\ pdfFiles' = pdfFiles \cup {f}
    /\ uploads' = Put(uploads, f, 500)
    /\ documentAnalysis' = Put(documentAnalysis, f,
                               [filename |-> "doc.pdf", content |-> "", tables |-> ""])
    /\ UNCHANGED <<excelTemplates, disk, filledWorkbooks, fillJobs,
                   fillReqs, task, openAiConfigured, requests, an, ex, norm, uiVars,
                   filePaths, deleted, fillResponses>>

\* POST /upload whose analyzePDF call threw: the catch block answers 500;
\* multer has stored the PDF, which stays under uploads/
UploadFailed(f) ==
    /\ f \notin usedNames
    /\ usedNames' = usedNames \cup {f}
    /\ pdfFiles' = pdfFiles \cup {f}
    /\ uploads' = Put(uploads, f, 500)
    /\ UNCHANGED <<documentAnalysis, excelTemplates, disk, filledWorkbooks, fillJobs,
                   fillReqs, task, openAiConfigured, requests, an, ex, norm, uiVars,
                   filePaths, deleted, fillResponses>>

\* POST /upload whose analyzePDF call returned
Upload(f) ==
    /\ f \notin usedNames
    /\ usedNames' = usedNames \cup {f}
    /\ documentAnalysis' = Put(documentAnalysis, f, NewAnalysis)
    /\ filePaths' = Put(filePaths, f, <<"uploads", f>>)
    /\ pdfFiles' = pdfFiles \cup {f}
    /\ uploads' = Put(uploads, f, 200)
    /\ UNCHANGED <<excelTemplates, disk, filledWorkbooks, fillJobs, fillReqs, task,
                   openAiConfigured, requests, an, ex, norm, uiVars, deleted, fillResponses>>

\* the jobs that are processing with the analysis of document f
ProcessingWith(f) ==
    {j \in DOMAIN fillJobs : fillJobs[j].status = "processing" /\ task[j].fileId = f}

\* the delete handler without the removal of the analysis
DeleteFileKeepsAnalysis(f, unlinkOk) ==
    /\ f \in DOMAIN documentAnalysis
    /\ IF f \in DOMAIN filePaths
       THEN /\ pdfFiles' = IF unlinkOk THEN pdfFiles \ {f} ELSE pdfFiles
            /\ filePaths' = Remove(filePaths, f)
       ELSE UNCHANGED <<pdfFiles, filePaths>>
    /\ deleted' = Put(deleted, f, ProcessingWith(f))
    /\ UNCHANGED <<documentAnalysis, excelTemplates, disk, filledWorkbooks, fillJobs,
                   fillReqs, task, openAiConfigured, requests, usedNames, an, ex, norm, uiVars,
                   fillResponses, uploads>>

\* DELETE /files/:fileId for a stored analysis; unlinkSync removes the PDF or
\* throws, which the handler logs and ignores
DeleteFile(f, unlinkOk) ==
    /\ f \in DOMAIN documentAnalysis
    /\ IF f \in DOMAIN filePaths
       THEN /\ pdfFiles' = IF unlinkOk THEN pdfFiles \ {f} ELSE pdfFiles
            /\ filePaths' = Remove(filePaths, f)
       ELSE UNCHANGED <<pdfFiles, filePaths>>
    /\ documentAnalysis' = Remove(documentAnalysis, f)
    /\ deleted' = Put(deleted, f, ProcessingWith(f))
    /\ UNCHANGED <<excelTemplates, disk, filledWorkbooks, fillJobs,
                   fillReqs, task, openAiConfigured, requests, usedNames, an, ex, norm, uiVars,
                   fillResponses, uploads>>

\* documentAnalysis[f] is truthy: an own property or an inherited one
HasAnalysis(f) == f \in DOMAIN documentAnalysis \/ f = InheritedKey

\* the status code of the response of DELETE /files/:fileId; unlinkSync
\* failing changes nothing in it
DeleteFileResponse(f) == IF HasAnalysis(f) THEN 200 ELSE 404

\* DELETE /files/:fileId for an id without a stored analysis: not found, or,
\* for an inherited property name, existsSync(filePaths[fileId]) is false and
\* the two delete operators find no own property to remove
DeleteFileNoRecord(f) ==
    /\ f \notin DOMAIN documentAnalysis
    /\ DeleteFileResponse(f) \in {200, 404}
    /\ UNCHANGED vars

\* the status code of the response of GET /pdf/:fileId: the file is served
\* from filePaths[fileId] or, without an entry, from uploads/<fileId> when
\* existsSync finds it; the function object filePaths inherits under
\* 'constructor' is truthy and names no file
PdfResponse(f) ==
    IF f \in DOMAIN filePaths THEN (IF f \in pdfFiles THEN 200 ELSE 404)
    ELSE IF f = InheritedKey THEN 404
    ELSE IF f \in pdfFiles THEN 200 ELSE 404

\* GET /pdf/:fileId: a file found under uploads/ without an entry of filePaths
\* is entered there 'for future use'
GetPdf(f) ==
    /\ filePaths' = IF f \notin DOMAIN filePaths /\ PdfResponse(f) = 200
                    THEN Put(filePaths, f, <<"uploads", f>>)
                    ELSE filePaths
    /\ UNCHANGED <<documentAnalysis, excelTemplates, disk, filledWorkbooks, fillJobs,
                   fillReqs, task, openAiConfigured, requests, usedNames, an, ex,
                   norm, uiVars, pdfFiles, deleted, uploads, fillResponses>>

\* GET /transcriptions: res.json(documentAnalysis), the own properties
TranscriptionsResponse == documentAnalysis

\* GET /transcriptions changes nothing
GetTranscriptions == UNCHANGED vars

\* documentAnalysis[f] when it is truthy; the inherited value is a function
\* object, which has no filename and no content
AnalysisOf(f) ==
    IF f \in DOMAIN documentAnalysis THEN documentAnalysis[f]
    ELSE [filename |-> Undefined, content |-> Undefined, tables |-> Undefined]

\* the response of GET /transcription/:fileId
TranscriptionResponse(f) ==
    IF HasAnalysis(f) THEN [code |-> 200, body |-> AnalysisOf(f)]
    ELSE [code |-> 404, body |-> "Document analysis not found"]

\* GET /transcription/:fileId changes nothing
GetTranscription(f) ==
    /\ TranscriptionResponse(f).code \in {200, 404}
    /\ UNCHANGED vars

\* ------------------------------------------------------------ the fill job
\* the rejection handler that logs the error and leaves the job as it is
RejectionHandlerLogsOnly(job, message) == job

\* the rejection handler with a status the progress protocol does not know
RejectionHandlerFailed(job, message) ==
    [job EXCEPT !.status = "failed", !.error = message]

\* the rejection handler starting the progress count over
RejectionHandlerResets(job, message) ==
    [job EXCEPT !.status = "error", !.error = message, !.current = 0]

\* the rejection handler taking the rows answered so far as the total
RejectionHandlerCutsTotal(job, message) ==
    [job EXCEPT !.status = "error", !.error = message, !.total = job.current]

\* .catch of the processFillJob promise
RejectionHandler(job, message) ==
    [job EXCEPT !.status = "error", !.error = message]

\* the row loop stepping over the row that follows an answered one
NextQuestionSkipping(rows, idx) ==
    LET from == IF idx = 0 THEN 1 ELSE idx + 2
        later == {i \in from..Len(rows) : FillAnswers(rows[i].text)} IN
    IF later = {} THEN 0 ELSE CHOOSE i \in later : \A k \in later : i <= k

\* the row loop walking the rows from the last one to the first one
NextQuestionDescending(rows, idx) ==
    LET to == IF idx = 0 THEN Len(rows) ELSE idx - 1
        earlier == {i \in 1..to : FillAnswers(rows[i].text)} IN
    IF earlier = {} THEN 0 ELSE CHOOSE i \in earlier : \A k \in earlier : i >= k

\* index of the first row after idx that the fill pass answers, 0 when none
NextQuestion(rows, idx) ==
    LET later == {i \in (idx + 1)..Len(rows) : FillAnswers(rows[i].text)} IN
    IF later = {} THEN 0 ELSE CHOOSE i \in later : \A k \in later : i <= k

\* the text of the requests when it is looked up again for every request
FullTextReread(t) ==
    IF t.fileId \in DOMAIN documentAnalysis
    THEN documentAnalysis[t.fileId].content
    ELSE ""

\* sectionText of every request of the task: fullText = analysis.content || ''
\* of the analysis object the task took from documentAnalysis when it started
FullText(t) ==
    IF t.analysis.content = Undefined THEN "" ELSE t.analysis.content

\* processFillJob running on from row idx to its next await: the request of
\* the next question row, or writeFile when the loops are over.  requireAnyEnv
\* throws at the start of generateAnswerWithAzureOpenAI.
Continue(t, idx) ==
    LET n == NextQuestion(t.rows, idx) IN
    IF n = 0 THEN [t EXCEPT !.pc = "writing", !.idx = Len(t.rows) + 1,
                            !.fallbacks = 0, !.cause = "none"]
    ELSE IF ~openAiConfigured
         THEN [t EXCEPT !.pc = "rejected", !.idx = n,
                        !.message = "Missing or placeholder AZURE_OPENAI",
                        !.fallbacks = 0, !.cause = "none"]
         ELSE [t EXCEPT !.pc = "request", !.idx = n, !.attempt = 1,
                        !.sent = FullText(t), !.fallbacks = 0, !.cause = "none"]

\* excelId values of requests: the ids of templates and 0, an id that is
\* missing or that POST /upload-excel never returned
RequestExcelIds == ExcelIds \cup {0}

\* the checks without the one of the header of the template file
FillExcelValidationNoHeader(e, f) ==
    IF e \notin DOMAIN excelTemplates
    THEN [code |-> 400, error |-> "Invalid or missing excelId"]
    ELSE IF f = NoId \/ ~HasAnalysis(f)
    THEN [code |-> 400, error |-> "Invalid or missing fileId (PDF analysis)"]
    ELSE IF excelTemplates[e].path \notin DOMAIN disk
    THEN [code |-> 400, error |-> "Excel template file is missing on disk"]
    ELSE [code |-> 200, error |-> NULL]

\* the checks of POST /fill-excel before the pre-scan: the status code and the
\* error of the response that rejects the request, 200 when all checks pass
FillExcelValidation(e, f) ==
    IF e \notin DOMAIN excelTemplates
    THEN [code |-> 400, error |-> "Invalid or missing excelId"]
    ELSE IF f = NoId \/ ~HasAnalysis(f)
    THEN [code |-> 400, error |-> "Invalid or missing fileId (PDF analysis)"]
    ELSE IF excelTemplates[e].path \notin DOMAIN disk
    THEN [code |-> 400, error |-> "Excel template file is missing on disk"]
    ELSE IF ~isZipFileHeader(excelTemplates[e].path)
    THEN [code |-> 400, error |-> "Excel template is not a valid .xlsx"]
    ELSE [code |-> 200, error |-> NULL]

\* POST /fill-excel answered by one of the checks: nothing is stored or started
FillExcelRejected(e, f) ==
    /\ FillExcelValidation(e, f).code = 400
    /\ UNCHANGED vars

\* POST /fill-excel up to await workbookForCount.xlsx.readFile
FillExcelStart(e, f) ==
    /\ FillExcelValidation(e, f).code = 200
    /\ requests' = requests + 1
    /\ fillReqs' = fillReqs \cup {[req |-> requests + 1, excelId |-> e, fileId |-> f]}
    /\ UNCHANGED <<documentAnalysis, excelTemplates, disk, filledWorkbooks, fillJobs,
                   task, openAiConfigured, usedNames, an, ex, norm, uiVars,
                   docVars, fillResponses>>

\* the task when processFillJob runs on to its first request inside the call
StartTaskRequesting(q) ==
    [pc |-> "request", idx |-> 1, attempt |-> 1, rows |-> <<>>, cells |-> <<>>,
     analysis |-> AnalysisOf(q.fileId), excelId |-> q.excelId,
     fileId |-> q.fileId, sent |-> "", message |-> "",
     fallbacks |-> 0, cause |-> "none"]

\* the task of a job at the first await of processFillJob; analysis.content
\* throws a TypeError when documentAnalysis[fileId] is undefined by now
StartTask(q) ==
    IF HasAnalysis(q.fileId)
    THEN [pc |-> "reading", idx |-> 0, attempt |-> 0, rows |-> <<>>, cells |-> <<>>,
          analysis |-> AnalysisOf(q.fileId), excelId |-> q.excelId,
          fileId |-> q.fileId, sent |-> "", message |-> "",
     fallbacks |-> 0, cause |-> "none"]
    ELSE [pc |-> "rejected", idx |-> 0, attempt |-> 0, rows |-> <<>>, cells |-> <<>>,
          analysis |-> [filename |-> "", content |-> "", tables |-> ""], excelId |-> q.excelId,
          fileId |-> q.fileId, sent |-> "",
          message |-> "Cannot read properties of undefined",
          fallbacks |-> 0, cause |-> "none"]

\* readFile(path) returns the workbook: no I/O error, the file is there and
\* ExcelJS can parse it
ReadsWorkbook(path, ioOk) ==
    ioOk /\ path \in DOMAIN disk /\ disk[path].readable

\* the record POST /fill-excel stores for a new job
NewJob(totalQuestions) ==
    [status |-> "processing", current |-> 0, total |-> totalQuestions,
     error |-> NULL, result |-> NoResult]

\* POST /fill-excel from the return of the pre-scan read to the response:
\* the job record, the call of processFillJob and res.json, or the 500 of the
\* outer catch when the read threw
FillExcelScanned(q, ioOk) ==
    /\ q \in fillReqs
    /\ fillReqs' = fillReqs \ {q}
    /\ LET path == excelTemplates[q.excelId].path IN
       IF ~ReadsWorkbook(path, ioOk)
       THEN /\ fillResponses' = Put(fillResponses, q.req,
                                    [code |-> 500, jobId |-> 0, total |-> 0])
            /\ UNCHANGED <<fillJobs, task>>
       ELSE LET jobId == Cardinality(DOMAIN fillJobs) + 1
                totalQuestions == TotalQuestions(disk[path].sheets)
            IN /\ fillJobs' = Put(fillJobs, jobId, NewJob(totalQuestions))
               /\ task' = Put(task, jobId, StartTask(q))
               /\ fillResponses' = Put(fillResponses, q.req,
                                       [code |-> 200, jobId |-> jobId,
                                        total |-> totalQuestions])
    /\ UNCHANGED <<documentAnalysis, excelTemplates, disk, filledWorkbooks,
                   openAiConfigured, requests, usedNames, an, ex, norm, uiVars, docVars>>


\* a row answered with current counted up by two
RowAnsweredByTwo(j, t, answer) ==
    LET t2 == Continue([t EXCEPT !.cells = Put(t.cells, t.idx, answer)], t.idx) IN
    /\ task' = [task EXCEPT ![j] = t2]
    /\ fillJobs' = [fillJobs EXCEPT ![j].current = @ + 2]

\* the task and the job after generateAnswerWithAzureOpenAI returned a payload
\* for row t.idx: cellB.value = ..., job.current++ and on to the next await
RowAnswered(j, t, answer) ==
    LET t2 == Continue([t EXCEPT !.cells = Put(t.cells, t.idx, answer)], t.idx) IN
    /\ task' = [task EXCEPT ![j] = t2]
    /\ fillJobs' = [fillJobs EXCEPT ![j].current = @ + 1]

\* processFillJob threw: its promise is rejected with the error
TaskThrew(j, t, message) ==
    /\ task' = [task EXCEPT ![j] = [t EXCEPT !.pc = "rejected", !.message = message,
                                              !.fallbacks = 0, !.cause = "none"]]
    /\ UNCHANGED fillJobs

\* a rejection that ends every job that is processing
RejectionEndsAll(j) ==
    /\ j \in DOMAIN task
    /\ task[j].pc = "rejected"
    /\ task' = [task EXCEPT ![j].pc = "settled"]
    /\ fillJobs' = [k \in DOMAIN fillJobs |->
                       IF fillJobs[k].status = "processing"
                       THEN RejectionHandler(fillJobs[k], task[j].message)
                       ELSE fillJobs[k]]
    /\ UNCHANGED <<documentAnalysis, excelTemplates, disk, filledWorkbooks, fillReqs,
                   openAiConfigured, requests, usedNames, an, ex, norm, uiVars,
                   docVars, fillResponses>>

\* the rejection handler attached by POST /fill-excel runs
Rejection(j) ==
    /\ j \in DOMAIN task
    /\ task[j].pc = "rejected"
    /\ task' = [task EXCEPT ![j].pc = "settled"]
    /\ fillJobs' = [fillJobs EXCEPT ![j] = RejectionHandler(fillJobs[j], task[j].message)]
    /\ UNCHANGED <<documentAnalysis, excelTemplates, disk, filledWorkbooks, fillReqs,
                   openAiConfigured, requests, usedNames, an, ex, norm, uiVars,
                   docVars, fillResponses>>

\* await workbook.xlsx.readFile(template.path) of processFillJob returns or throws
ReadDone(j, ioOk) ==
    /\ j \in DOMAIN task
    /\ task[j].pc = "reading"
    /\ LET path == excelTemplates[task[j].excelId].path IN
       IF ~ReadsWorkbook(path, ioOk)
       THEN TaskThrew(j, task[j], "readFile failed")
       ELSE LET t2 == Continue([task[j] EXCEPT !.rows = Rows(disk[path].sheets)], 0) IN
            /\ task' = [task EXCEPT ![j] = t2]
            /\ UNCHANGED fillJobs
    /\ UNCHANGED <<documentAnalysis, excelTemplates, disk, filledWorkbooks, fillReqs,
                   openAiConfigured, requests, usedNames, an, ex, norm, uiVars,
                   docVars, fillResponses>>

\* outcomes of the structured chat-completion request
ChatOutcomes == {"valid", "invalid", "http400_response_format", "httpError"}

\* the structured request (with response_format) of the current attempt ends
ChatResponse(j, outcome) ==
    /\ j \in DOMAIN task
    /\ task[j].pc = "request"
    /\ LET t == task[j] IN
       CASE outcome = "valid" -> RowAnswered(j, t, AnswerText)
         [] outcome = "invalid" ->
              IF t.attempt = maxAttempts
              THEN RowAnswered(j, t, Sentinel)
              ELSE /\ task' = [task EXCEPT ![j].attempt = @ + 1]
                   /\ UNCHANGED fillJobs
         [] outcome = "http400_response_format" ->
              IF t.attempt < maxAttempts
              THEN /\ task' = [task EXCEPT ![j].pc = "fallback",
                                             ![j].fallbacks = @ + 1,
                                             ![j].cause = outcome]
                   /\ UNCHANGED fillJobs
              ELSE TaskThrew(j, t, "Azure OpenAI answer generation failed")
         [] outcome = "httpError" ->
              IF t.attempt = maxAttempts
              THEN TaskThrew(j, t, "Azure OpenAI answer generation failed")
              ELSE /\ task' = [task EXCEPT ![j].attempt = @ + 1]
                   /\ UNCHANGED fillJobs
    /\ UNCHANGED <<documentAnalysis, excelTemplates, disk, filledWorkbooks, fillReqs,
                   openAiConfigured, requests, usedNames, an, ex, norm, uiVars,
                   docVars, fillResponses>>

\* outcomes of the unstructured fallback request
FallbackOutcomes == {"valid", "invalid", "httpError"}

\* the fallback request (without response_format) ends; only attempts before
\* the last one send it, so a failure goes on to the next attempt
FallbackResponse(j, outcome) ==
    /\ j \in DOMAIN task
    /\ task[j].pc = "fallback"
    /\ LET t == task[j] IN
       IF outcome = "valid"
       THEN RowAnswered(j, t, AnswerText)
       ELSE IF t.attempt = maxAttempts
            THEN TaskThrew(j, t, "Azure OpenAI answer generation failed")
            ELSE /\ task' = [task EXCEPT ![j].pc = "request", ![j].attempt = @ + 1,
                                          ![j].cause = "none"]
                 /\ UNCHANGED fillJobs
    /\ UNCHANGED <<documentAnalysis, excelTemplates, disk, filledWorkbooks, fillReqs,
                   openAiConfigured, requests, usedNames, an, ex, norm, uiVars,
                   docVars, fillResponses>>

\* outName: the sanitized analysis.filename without .pdf ('analysis' when
\* there is none) followed by _filled.xlsx
OutName(analysis) ==
    <<IF analysis.filename = Undefined THEN "analysis" ELSE analysis.filename,
      "_filled.xlsx">>

\* processFillJob setting status and result before it awaits writeFile
WriteDoneStatusFirst(j, ioOk) ==
    /\ j \in DOMAIN task
    /\ task[j].pc = "writing"
    /\ IF ~ioOk
       THEN /\ task' = [task EXCEPT ![j].pc = "rejected",
                                      ![j].message = "writeFile failed"]
            /\ fillJobs' = [fillJobs EXCEPT
                              ![j].status = "complete",
                              ![j].result = [filledId |-> j,
                                             filename |-> OutName(task[j].analysis)]]
            /\ UNCHANGED <<disk, filledWorkbooks>>
       ELSE LET filledId == j
                outName == OutName(task[j].analysis)
                outPath == <<"filled", filledId>>
            IN /\ disk' = Put(disk, outPath, task[j].cells)
               /\ filledWorkbooks' = Put(filledWorkbooks, filledId,
                                         [filename |-> outName, path |-> outPath])
               /\ task' = [task EXCEPT ![j].pc = "returned"]
               /\ fillJobs' = [fillJobs EXCEPT
                                 ![j].status = "complete",
                                 ![j].result = [filledId |-> filledId,
                                                filename |-> outName]]
    /\ UNCHANGED <<documentAnalysis, excelTemplates, fillReqs,
                   openAiConfigured, requests, usedNames, an, ex, norm, uiVars,
                   docVars, fillResponses>>

\* await workbook.xlsx.writeFile(outPath) returns or throws
WriteDone(j, ioOk) ==
    /\ j \in DOMAIN task
    /\ task[j].pc = "writing"
    /\ IF ~ioOk
       THEN /\ TaskThrew(j, task[j], "writeFile failed")
            /\ UNCHANGED <<disk, filledWorkbooks>>
       ELSE LET filledId == j
                outName == OutName(task[j].analysis)
                outPath == <<"filled", filledId>>
            IN /\ disk' = Put(disk, outPath, task[j].cells)
               /\ filledWorkbooks' = Put(filledWorkbooks, filledId,
                                         [filename |-> outName, path |-> outPath])
               /\ task' = [task EXCEPT ![j].pc = "returned"]
               /\ fillJobs' = [fillJobs EXCEPT
                                 ![j].status = "complete",
                                 ![j].result = [filledId |-> filledId,
                                                filename |-> outName]]
    /\ UNCHANGED <<documentAnalysis, excelTemplates, fillReqs,
                   openAiConfigured, requests, usedNames, an, ex, norm, uiVars,
                   docVars, fillResponses>>

\* a progress handler that drops the record of a job once it has reported it
\* complete or error
GetProgressForgets(id) ==
    IF id \in DOMAIN fillJobs /\ fillJobs[id].status # "processing"
    THEN /\ fillJobs' = Remove(fillJobs, id)
         /\ UNCHANGED <<documentAnalysis, excelTemplates, disk, filledWorkbooks,
                        fillReqs, task, openAiConfigured, requests, usedNames,
                        an, ex, norm, uiVars, docVars, fillResponses>>
    ELSE UNCHANGED vars

\* GET /fill-excel-progress/:jobId stores nothing
GetProgress(id) == UNCHANGED vars

\* a jobId that names a property fillJobs ({}) inherits, such as 'constructor'
InheritedJobId == 0
\* jobIds of progress requests: created or not, or naming an inherited property
ProgressIds == JobIds \cup {MaxJobs + 1, InheritedJobId}

\* the response of GET /fill-excel-progress/:jobId; job = fillJobs[jobId] is
\* a record, an inherited function object (truthy, none of the fields) or
\* undefined
ProgressResponse(id) ==
    IF id \in DOMAIN fillJobs
    THEN [code |-> 200, status |-> fillJobs[id].status,
          current |-> fillJobs[id].current, total |-> fillJobs[id].total,
          error |-> fillJobs[id].error, result |-> fillJobs[id].result]
    ELSE IF id = InheritedJobId
    THEN [code |-> 200, status |-> Undefined, current |-> Undefined,
          total |-> Undefined, error |-> Undefined, result |-> Undefined]
    ELSE [code |-> 404, status |-> Undefined, current |-> Undefined,
          total |-> Undefined, error |-> "Job not found", result |-> Undefined]

\* the response code of GET /download-filled-excel/:filledId
DownloadResponse(filledId) ==
    IF /\ filledId \in DOMAIN filledWorkbooks
       /\ filledWorkbooks[filledId].path \in DOMAIN disk
    THEN 200 ELSE 404

\* ---------------------------------------------------- table export and chat
\* the table exports registered so far; createId('export') gives the ids,
\* written -1, -2, ... to keep them apart from those of createId('filled')
Exports == Cardinality({k \in DOMAIN filledWorkbooks : k < 0})

\* POST /export-tables and POST /export-single-tab: 400 for an id without an
\* analysis or an analysis without tables, 500 when writeFile throws; else the
\* workbook built from analysis.tables is written and registered for download.
\* The handler reads the analysis before its only await, the one of writeFile.
Export(f, suffix, ioOk) ==
    IF f = NoId \/ ~HasAnalysis(f) \/ AnalysisOf(f).tables = Undefined \/ ~ioOk
    THEN UNCHANGED vars
    ELSE LET analysis == AnalysisOf(f)
             exportId == 0 - (Exports + 1)
             outName == <<analysis.filename, suffix>>
             outPath == <<"filled", exportId>>
         IN /\ disk' = Put(disk, outPath, analysis.tables)
            /\ filledWorkbooks' = Put(filledWorkbooks, exportId,
                                      [filename |-> outName, path |-> outPath])
            /\ UNCHANGED <<documentAnalysis, excelTemplates, fillJobs, fillReqs, task,
                           openAiConfigured, requests, usedNames, an, ex, norm, uiVars,
                           docVars, fillResponses>>

\* POST /export-tables: one worksheet per table
ExportTables(f, ioOk) == Export(f, "_tables.xlsx", ioOk)

\* POST /export-single-tab: all tables on one worksheet
ExportSingleTab(f, ioOk) == Export(f, "_single_tab.xlsx", ioOk)

\* the document text POST /chat puts into its request
ChatContext(f) ==
    IF f # NoId /\ HasAnalysis(f) THEN AnalysisOf(f).content ELSE ""

\* POST /chat reads the content of the document and stores nothing
Chat(f) ==
    /\ ChatContext(f) \in {"", "text", Undefined}
    /\ UNCHANGED vars

\* ------------------------------------------------------ the analysis client
fillVars == <<documentAnalysis, excelTemplates, disk, filledWorkbooks, fillJobs,
              fillReqs, task, openAiConfigured, requests, usedNames,
              docVars, fillResponses>>

\* states of the AZURE_CONTENT_UNDERSTANDING_ENDPOINT / _KEY variables
Configs == {"ok", "missingEndpoint", "invalidEndpoint", "missingKey"}

\* errors a request of analyzePDF can fail with: an HTTP status (error.response
\* .status), a timeout (error.code ECONNABORTED) or another network error
HttpStatuses == {429, 401, 413, 400, 500}
RequestErrors ==
    {[kind |-> "http", status |-> c] : c \in HttpStatuses}
    \cup {[kind |-> "timeout", status |-> 0], [kind |-> "network", status |-> 0]}

\* values of resultResponse.data.status
OperationStatuses == {"notStarted", "running", "succeeded", "failed"}

\* the retry test written as retryCount <= maxRetries
ShouldRetryOffByOne(a, err) ==
    err.kind = "http" /\ err.status = 429 /\ a.retryCount <= maxRetries

\* the retry test without the test for status 429
ShouldRetryAny(a, err) ==
    err.kind = "http" /\ a.retryCount < maxRetries

\* the retry test allowing two retries more
ShouldRetryTwiceMore(a, err) ==
    err.kind = "http" /\ err.status = 429 /\ a.retryCount < maxRetries + 2

\* error.response?.status === 429 && retryCount < maxRetries
ShouldRetry(a, err) ==
    err.kind = "http" /\ err.status = 429 /\ a.retryCount < maxRetries

\* the catch block of analyzePDF for an error of the current cycle
CatchBlock(a, err) ==
    IF err.kind = "config"
    THEN [a EXCEPT !.pc = "threw", !.message = err.text]
    ELSE IF ShouldRetry(a, err)
    THEN [a EXCEPT !.pc = "backoff"]
    ELSE IF err.kind = "http" /\ err.status = 401
    THEN [a EXCEPT !.pc = "threw", !.message = "Authentication failed"]
    ELSE IF err.kind = "http" /\ err.status = 429
    THEN [a EXCEPT !.pc = "threw", !.message = "Rate limit exceeded",
                   !.tried = a.retryCount + 1]
    ELSE IF err.kind = "http" /\ err.status = 413
    THEN [a EXCEPT !.pc = "threw", !.message = "File too large"]
    ELSE IF err.kind = "http" /\ err.status = 400
    THEN [a EXCEPT !.pc = "threw", !.message = "Invalid PDF file format"]
    ELSE IF err.kind = "timeout"
    THEN [a EXCEPT !.pc = "threw", !.message = "Request timeout"]
    ELSE IF err.kind = "status"
    THEN [a EXCEPT !.pc = "threw", !.message = "Document analysis failed",
                   !.failedStatus = err.text]
    ELSE [a EXCEPT !.pc = "threw", !.message = "Document analysis failed"]

\* bookkeeping of the environment: the error that ended the current cycle and
\* the number of cycles ended by an HTTP 429 so far
Observed(a, err) ==
    [a EXCEPT !.lastError = [kind |-> err.kind, status |-> err.status],
              !.rateLimited = IF err.kind = "http" /\ err.status = 429
                              THEN @ + 1 ELSE @]

\* an error thrown inside the try block of analyzePDF reaches its catch block
Caught(a, err) == CatchBlock(Observed(a, err), err)

\* analyzePDF from its entry to the first await: the configuration is read and
\* the POST ...:analyze request is sent
EnterCycle(a) ==
    IF a.config = "missingEndpoint"
    THEN Caught(a, [kind |-> "config", status |-> 0,
             text |-> "Missing or placeholder AZURE_CONTENT_UNDERSTANDING_ENDPOINT"])
    ELSE IF a.config = "invalidEndpoint"
    THEN Caught(a, [kind |-> "config", status |-> 0,
             text |-> "Invalid AZURE_CONTENT_UNDERSTANDING_ENDPOINT"])
    ELSE IF a.config = "missingKey"
    THEN Caught(a, [kind |-> "config", status |-> 0,
             text |-> "Missing or placeholder AZURE_CONTENT_UNDERSTANDING_KEY"])
    ELSE [a EXCEPT !.pc = "submit", !.submits = @ + 1,
                   !.attempts = 0, !.status = "none", !.cyclePolls = 0]

\* POST /upload calls analyzePDF(filePath, originalFilename)
AnalyzeCall ==
    /\ an.pc = "idle"
    /\ an' = EnterCycle(an)
    /\ UNCHANGED <<fillVars, ex, norm, uiVars>>

\* the submit request returned 202 with or without an operation-location header
SubmitAccepted(hasLocation) ==
    /\ an.pc = "submit"
    /\ an' = IF hasLocation
             THEN [an EXCEPT !.pc = "poll", !.polls = @ + 1, !.cyclePolls = @ + 1]
             ELSE Caught(an, [kind |-> "error", status |-> 0,
                                  text |-> "No operation location received"])
    /\ UNCHANGED <<fillVars, ex, norm, uiVars>>

\* the submit request failed
SubmitFailed(err) ==
    /\ an.pc = "submit"
    /\ an' = Caught(an, err)
    /\ UNCHANGED <<fillVars, ex, norm, uiVars>>

\* the poll loop with the test attempts <= maxAttempts
PollReturnedOneMore(st) ==
    /\ an.pc = "poll"
    /\ LET a == [an EXCEPT !.attempts = @ + 1, !.status = st] IN
       an' = IF st = "running" /\ a.attempts <= maxPollAttempts
             THEN [a EXCEPT !.polls = @ + 1, !.cyclePolls = @ + 1]
             ELSE IF st = "succeeded"
             THEN [a EXCEPT !.pc = "returned"]
             ELSE Caught(a, [kind |-> "status", status |-> 0, text |-> st])
    /\ UNCHANGED <<fillVars, ex, norm, uiVars>>

\* the result test written as status !== 'failed'
PollReturnedUnlessFailed(st) ==
    /\ an.pc = "poll"
    /\ LET a == [an EXCEPT !.attempts = @ + 1, !.status = st] IN
       an' = IF st = "running" /\ a.attempts < maxPollAttempts
             THEN [a EXCEPT !.polls = @ + 1, !.cyclePolls = @ + 1]
             ELSE IF st # "failed"
             THEN [a EXCEPT !.pc = "returned"]
             ELSE Caught(a, [kind |-> "status", status |-> 0, text |-> st])
    /\ UNCHANGED <<fillVars, ex, norm, uiVars>>

\* a status poll returned a body with the given status: the do-while test,
\* then the test for 'succeeded'
PollReturned(st) ==
    /\ an.pc = "poll"
    /\ LET a == [an EXCEPT !.attempts = @ + 1, !.status = st] IN
       an' = IF st = "running" /\ a.attempts < maxPollAttempts
             THEN [a EXCEPT !.polls = @ + 1, !.cyclePolls = @ + 1]
             ELSE IF st = "succeeded"
             THEN [a EXCEPT !.pc = "returned"]
             ELSE Caught(a, [kind |-> "status", status |-> 0, text |-> st])
    /\ UNCHANGED <<fillVars, ex, norm, uiVars>>

\* a status poll failed
PollFailed(err) ==
    /\ an.pc = "poll"
    /\ an' = Caught(an, err)
    /\ UNCHANGED <<fillVars, ex, norm, uiVars>>

\* the backoff delay is over: return analyzePDF(..., retryCount + 1)
BackoffDone ==
    /\ an.pc = "backoff"
    /\ an' = EnterCycle([an EXCEPT !.retryCount = @ + 1])
    /\ UNCHANGED <<fillVars, ex, norm, uiVars>>

InitAnalyze ==
    /\ documentAnalysis = <<>>
    /\ excelTemplates = <<>>
    /\ disk = <<>>
    /\ filledWorkbooks = <<>>
    /\ fillJobs = <<>>
    /\ fillReqs = {}
    /\ task = <<>>
    /\ openAiConfigured = TRUE
    /\ requests = 0
    /\ usedNames = {}
    /\ filePaths = <<>>
    /\ pdfFiles = {}
    /\ deleted = <<>>
    /\ fillResponses = <<>>
    /\ norm = NormIdle
    /\ uploads = <<>>
    /\ UiInit
    /\ ex = ExIdle
    /\ \E c \in Configs : an = AnIdle(c)

NextAnalyze ==
    \/ AnalyzeCall
    \/ \E hasLocation \in BOOLEAN : SubmitAccepted(hasLocation)
    \/ \E err \in RequestErrors : SubmitFailed(err)
    \/ \E st \in OperationStatuses : PollReturned(st)
    \/ \E err \in RequestErrors : PollFailed(err)
    \/ BackoffDone

SpecAnalyze == InitAnalyze /\ [][NextAnalyze]_vars

\* every request of analyzePDF returns or fails and every delay ends: a call
\* that can take a step takes one
FairSpecAnalyze == SpecAnalyze /\ WF_vars(NextAnalyze)

\* ------------------------------- the extraction of a succeeded response
\* Text is a sequence of characters; the banner and the parts of a table
\* header, which hold no whitespace at their ends, are single elements.
NL == "\n"

\* line.content: plain, or with whitespace at both ends
LineContents == {<<"a">>, <<" ", "b", " ">>}
\* page.lines of a page; it is empty also for a page without lines
PageLines == UNION {[1..n -> LineContents] : n \in 0..MaxLines}
\* analyzeResult.pages: the modelled responses have two pages
PageNumbers == 1..2
PageLists == [PageNumbers -> PageLines]

\* rowCount and columnCount of a table
Dims == 1..2
\* cell.content; the empty text also stands for a cell without content
CellContents == {<<"x">>, <<>>}

\* the cells given by f, a function from addresses to contents, in the order
\* of the service: row by row
RECURSIVE CellList(_, _)
CellList(f, addrs) ==
    IF addrs = {} THEN <<>>
    ELSE LET a == CHOOSE a \in addrs :
                    \A b \in addrs : a[1] < b[1] \/ (a[1] = b[1] /\ a[2] <= b[2])
         IN <<[rowIndex |-> a[1], columnIndex |-> a[2], content |-> f[a]]>>
            \o CellList(f, addrs \ {a})

\* analyzeResult.tables[i]: every cell lies inside rowCount x columnCount and
\* no two cells have the same address
TablesOf(rc, cc) ==
    UNION {{[rowCount |-> rc, columnCount |-> cc, cells |-> CellList(f, addrs)] :
               f \in [addrs -> CellContents]} :
           addrs \in SUBSET ((0..(rc - 1)) \X (0..(cc - 1)))}
Tables == UNION {TablesOf(rc, cc) : rc \in Dims, cc \in Dims}
\* analyzeResult.tables: no table, one table, or one followed by a table of
\* one row and one column
TableLists ==
    {<<>>} \cup {<<t>> : t \in Tables}
    \cup {<<t, u>> : t \in Tables, u \in TablesOf(1, 1)}

\* the inner loop without the newline after a line
RECURSIVE LinesTextNoNewline(_)
LinesTextNoNewline(lines) ==
    IF lines = <<>> THEN <<>>
    ELSE Head(lines) \o LinesTextNoNewline(Tail(lines))

\* for (const line of page.lines) extractedText += line.content + '\n'
RECURSIVE LinesText(_)
LinesText(lines) ==
    IF lines = <<>> THEN <<>>
    ELSE Head(lines) \o <<NL>> \o LinesText(Tail(lines))

\* for (const page of pages) if (page.lines) ...
RECURSIVE PagesText(_)
PagesText(pages) ==
    IF pages = <<>> THEN <<>>
    ELSE LinesText(Head(pages)) \o PagesText(Tail(pages))

\* Array(rowCount).fill(null).map(() => Array(columnCount).fill(''))
EmptyGrid(rc, cc) == [r \in 0..(rc - 1) |-> [c \in 0..(cc - 1) |-> <<>>]]

\* the cell loop with the two indices exchanged
RECURSIVE FillCellsTransposed(_, _)
FillCellsTransposed(grid, cells) ==
    IF cells = <<>> THEN grid
    ELSE LET cell == Head(cells)
             r == IF cell.columnIndex \in DOMAIN grid THEN cell.columnIndex ELSE 0
             c == IF cell.rowIndex \in DOMAIN grid[r] THEN cell.rowIndex ELSE 0
         IN FillCellsTransposed([grid EXCEPT ![r][c] = cell.content], Tail(cells))

\* for (const cell of table.cells)
\*     tableData[cell.rowIndex || 0][cell.columnIndex || 0] = cell.content || ''
RECURSIVE FillCells(_, _)
FillCells(grid, cells) ==
    IF cells = <<>> THEN grid
    ELSE LET cell == Head(cells) IN
         FillCells([grid EXCEPT ![cell.rowIndex][cell.columnIndex] = cell.content],
                   Tail(cells))

\* tableData of a table
TableData(table) ==
    FillCells(EmptyGrid(table.rowCount, table.columnCount), table.cells)

\* row.join(' | ') of the columns from c on
RECURSIVE JoinFrom(_, _)
JoinFrom(row, c) ==
    IF c \notin DOMAIN row THEN <<>>
    ELSE IF c + 1 \in DOMAIN row
         THEN row[c] \o <<" ", "|", " ">> \o JoinFrom(row, c + 1)
         ELSE row[c]

\* for (const row of tableData) extractedText += row.join(' | ') + '\n',
\* from row r on
RECURSIVE GridText(_, _)
GridText(grid, r) ==
    IF r \notin DOMAIN grid THEN <<>>
    ELSE JoinFrom(grid[r], 0) \o <<NL>> \o GridText(grid, r + 1)

\* the text one table adds: its header, its rows and an empty line
TableText(table, tableIndex) ==
    <<NL, "--- Table ", ToString(tableIndex), " (", ToString(table.rowCount),
      " rows x ", ToString(table.columnCount), " columns) ---", NL>>
    \o GridText(TableData(table), 0) \o <<NL>>

\* the text the tables i.. add
RECURSIVE TablesTextFrom(_, _)
TablesTextFrom(tables, i) ==
    IF i > Len(tables) THEN <<>>
    ELSE TableText(tables[i], i) \o TablesTextFrom(tables, i + 1)

\* if (tables.length > 0) the banner and the tables
TablesText(tables) ==
    IF tables = <<>> THEN <<>>
    ELSE <<NL, NL, "=== TABLES ===", NL, NL>> \o TablesTextFrom(tables, 1)

\* extractedTables
ExtractedTables(tables) ==
    [i \in 1..Len(tables) |->
        [tableIndex |-> i, rowCount |-> tables[i].rowCount,
         columnCount |-> tables[i].columnCount, data |-> TableData(tables[i])]]

\* a succeeded response with these pages and tables has been read
ExStart(pages, tables) ==
    [pc |-> "pages", pages |-> pages, tables |-> tables, extractedText |-> <<>>,
     extractedTables |-> <<>>, text |-> <<>>]

\* the loop over the pages
ExtractPages ==
    /\ ex.pc = "pages"
    /\ ex' = [ex EXCEPT !.pc = "tables", !.extractedText = PagesText(ex.pages)]
    /\ UNCHANGED <<fillVars, an, norm, uiVars>>

\* the loop over the tables
ExtractTables ==
    /\ ex.pc = "tables"
    /\ ex' = [ex EXCEPT !.pc = "return",
                        !.extractedText = @ \o TablesText(ex.tables),
                        !.extractedTables = ExtractedTables(ex.tables)]
    /\ UNCHANGED <<fillVars, an, norm, uiVars>>

\* return { text: extractedText.trim(), tables: extractedTables }
ExtractReturn ==
    /\ ex.pc = "return"
    /\ ex' = [ex EXCEPT !.pc = "returned", !.text = Trim(ex.extractedText)]
    /\ UNCHANGED <<fillVars, an, norm, uiVars>>

InitExtract ==
    /\ documentAnalysis = <<>>
    /\ excelTemplates = <<>>
    /\ disk = <<>>
    /\ filledWorkbooks = <<>>
    /\ fillJobs = <<>>
    /\ fillReqs = {}
    /\ task = <<>>
    /\ openAiConfigured = TRUE
    /\ requests = 0
    /\ usedNames = {}
    /\ filePaths = <<>>
    /\ pdfFiles = {}
    /\ deleted = <<>>
    /\ fillResponses = <<>>
    /\ norm = NormIdle
    /\ uploads = <<>>
    /\ UiInit
    /\ an = AnIdle("ok")
    /\ \E pages \in PageLists, tables \in TableLists : ex = ExStart(pages, tables)

NextExtract ==
    \/ ExtractPages
    \/ ExtractTables
    \/ ExtractReturn

SpecExtract == InitExtract /\ [][NextExtract]_vars

\* ------------------------------------- the normalization of an answer payload
\* Numbers are counted in thousandths: 1 is Scale, 0.5 is 500.
Scale == 1000

\* a JavaScript number: a finite one, Infinity, -Infinity or NaN
Finite(v) == [finite |-> TRUE, v |-> v]
PosInfinity == [finite |-> FALSE, v |-> 1]
NegInfinity == [finite |-> FALSE, v |-> -1]
NaN == [finite |-> FALSE, v |-> 0]

\* the value of a decimal digit, -1 for any other character
DigitValue(c) ==
    CASE c = "0" -> 0 [] c = "1" -> 1 [] c = "2" -> 2 [] c = "3" -> 3
      [] c = "4" -> 4 [] c = "5" -> 5 [] c = "6" -> 6 [] c = "7" -> 7
      [] c = "8" -> 8 [] c = "9" -> 9 [] OTHER -> -1

\* the value of a sequence of decimal digits
RECURSIVE DigitsValue(_)
DigitsValue(s) ==
    IF s = <<>> THEN 0
    ELSE DigitsValue(SubSeq(s, 1, Len(s) - 1)) * 10 + DigitValue(s[Len(s)])

\* the characters of 'Infinity'
InfinityChars == <<"I", "n", "f", "i", "n", "i", "t", "y">>

\* Number(s) of a string: whitespace at the ends is skipped, the empty string
\* is 0, then a signed Infinity or a signed decimal literal, NaN otherwise.
\* Literals have at most three digits after the point and no exponent.
StringToNumber(s) ==
    LET t == Trim(s)
        signed == t # <<>> /\ Head(t) \in {"-", "+"}
        sign == IF t # <<>> /\ Head(t) = "-" THEN -1 ELSE 1
        body == IF signed THEN Tail(t) ELSE t
        dots == {i \in 1..Len(body) : body[i] = "."}
        dot == IF dots = {} THEN Len(body) + 1 ELSE CHOOSE i \in dots : TRUE
        ip == SubSeq(body, 1, dot - 1)
        fp == SubSeq(body, dot + 1, Len(body))
        pad == CASE Len(fp) = 0 -> 1000 [] Len(fp) = 1 -> 100
                 [] Len(fp) = 2 -> 10 [] OTHER -> 1
    IN  IF t = <<>> THEN Finite(0)
        ELSE IF body = InfinityChars
        THEN (IF sign = 1 THEN PosInfinity ELSE NegInfinity)
        ELSE IF \/ Cardinality(dots) > 1
                \/ (ip = <<>> /\ fp = <<>>)
                \/ \E i \in 1..Len(ip) : DigitValue(ip[i]) < 0
                \/ \E i \in 1..Len(fp) : DigitValue(fp[i]) < 0
        THEN NaN
        ELSE Finite(sign * (DigitsValue(ip) * Scale
                            + (IF fp = <<>> THEN 0 ELSE DigitsValue(fp) * pad)))

\* a value of a parsed JSON text, or undefined for a property that is missing
JString(s) == [type |-> "string", str |-> s, num |-> NaN]
JNumber(n) == [type |-> "number", str |-> <<>>, num |-> n]
JBoolean == [type |-> "boolean", str |-> <<>>, num |-> NaN]
JNull == [type |-> "null", str |-> <<>>, num |-> NaN]
JUndefined == [type |-> "undefined", str |-> <<>>, num |-> NaN]

\* the longest answer a payload is returned with
AnswerLimit == 250

\* a text of n characters c
Repeat(c, n) == [i \in 1..n |-> c]

\* payload.answer: missing, not a string, empty or blank, with whitespace
\* around it, of 250 characters, of 251, and one whose 250th character after
\* trimming is a space
Answers ==
    { JUndefined, JNumber(Finite(5 * Scale)), JNull,
      JString(<<>>), JString(<<" ", "\n">>), JString(<<" ", "a", " ">>),
      JString(Repeat("a", AnswerLimit)), JString(Repeat("a", AnswerLimit + 1)),
      JString(<<" ">> \o Repeat("a", AnswerLimit - 1) \o <<" ", "b", " ">>) }

\* the strings given as confidence with the number each one stands for in
\* JavaScript, and strings that stand for no number
NumericStrings ==
    { [text |-> <<"0", ".", "5">>, means |-> 500],
      [text |-> <<" ", "0", ".", "2", "5", "\n">>, means |-> 250],
      [text |-> <<"1">>, means |-> 1000],
      [text |-> <<"2">>, means |-> 2000],
      [text |-> <<"-", "1">>, means |-> -1000],
      [text |-> <<"+", ".", "7">>, means |-> 700],
      [text |-> <<"1", ".">>, means |-> 1000],
      [text |-> <<"1", "0", ".", "0", "0", "1">>, means |-> 10001],
      [text |-> <<>>, means |-> 0],
      [text |-> <<" ">>, means |-> 0] }
NonNumericStrings ==
    { <<"h", "i", "g", "h">>, <<"0", ".", "5", "x">>, <<".">>, <<"-">>,
      <<"1", ".", "2", ".", "3">>, <<"0", " ", "5">>,
      InfinityChars, <<"-">> \o InfinityChars }

\* payload.confidence: numbers inside, at the ends of and outside [0,1], an
\* infinite number (the JSON text 1e999), strings, and values of other types
Confidences ==
    {JNumber(Finite(v)) : v \in {-500, 0, 500, 1000, 1500}}
    \cup {JNumber(PosInfinity), JNumber(NegInfinity)}
    \cup {JString(n.text) : n \in NumericStrings}
    \cup {JString(t) : t \in NonNumericStrings}
    \cup {JUndefined, JNull, JBoolean}

\* what extractJsonObject returns: null, a JSON value that is no object, an
\* array, or an object with any of the four properties (answer, confidence,
\* evidence_snippet, marker)
Payloads ==
    [kind : {"null", "string", "number", "boolean", "array"},
     answer : {JUndefined}, confidence : {JUndefined},
     evidence_snippet : {JUndefined}, marker : {JUndefined}]
    \cup [kind : {"object"}, answer : Answers, confidence : Confidences,
          evidence_snippet : {JUndefined, JString(<<" ", "e">>)},
          marker : {JUndefined, JString(<<" ", "B", ".", "2">>), JString(<<" ">>)}]

\* null as the return value of normalizeGptAnswerPayload
NullPayload ==
    [isNull |-> TRUE, answer |-> <<>>, confidence |-> 0,
     evidence_snippet |-> <<>>, marker |-> <<>>]

\* the clamp without its upper end
BoundedConfidenceAbove(confidence) ==
    IF confidence < 0 THEN 0 ELSE confidence

\* Math.max(0, Math.min(1, confidence)) of a finite number
BoundedConfidence(confidence) ==
    LET least == IF confidence < Scale THEN confidence ELSE Scale IN
    IF least < 0 THEN 0 ELSE least

\* normalizeGptAnswerPayload(payload, marker)
normalizeGptAnswerPayload(payload, marker) ==
    IF payload.kind \notin {"object", "array"} THEN NullPayload
    ELSE
    LET answer == IF payload.answer.type = "string"
                  THEN Trim(payload.answer.str) ELSE <<>>
        confidenceRaw == payload.confidence
        confidence == IF confidenceRaw.type = "number" THEN confidenceRaw.num
                      ELSE IF confidenceRaw.type = "string"
                      THEN StringToNumber(confidenceRaw.str)
                      ELSE NaN
        evidence == IF payload.evidence_snippet.type = "string"
                    THEN Trim(payload.evidence_snippet.str) ELSE <<>>
        markerOut == IF payload.marker.type = "string"
                     THEN Trim(payload.marker.str) ELSE marker
    IN  IF answer = <<>> \/ ~confidence.finite THEN NullPayload
        ELSE [isNull |-> FALSE,
              answer |-> IF Len(answer) > AnswerLimit
                         THEN SubSeq(answer, 1, AnswerLimit) ELSE answer,
              confidence |-> BoundedConfidence(confidence.v),
              evidence_snippet |-> evidence,
              marker |-> IF markerOut = <<>> THEN marker ELSE markerOut]

\* normalizeGptAnswerPayload is called with a payload and a marker
NormCalled(payload, marker) ==
    [pc |-> "called", payload |-> payload, marker |-> marker, result |-> NullPayload]

\* the call returns
NormalizeReturn ==
    /\ norm.pc = "called"
    /\ norm' = [norm EXCEPT !.pc = "returned",
                            !.result = normalizeGptAnswerPayload(norm.payload,
                                                                 norm.marker)]
    /\ UNCHANGED <<fillVars, an, ex, uiVars>>

InitNormalize ==
    /\ documentAnalysis = <<>>
    /\ excelTemplates = <<>>
    /\ disk = <<>>
    /\ filledWorkbooks = <<>>
    /\ fillJobs = <<>>
    /\ fillReqs = {}
    /\ task = <<>>
    /\ openAiConfigured = TRUE
    /\ requests = 0
    /\ usedNames = {}
    /\ filePaths = <<>>
    /\ pdfFiles = {}
    /\ deleted = <<>>
    /\ fillResponses = <<>>
    /\ an = AnIdle("ok")
    /\ ex = ExIdle
    /\ uploads = <<>>
    /\ UiInit
    \* the marker argument is safeMarker of the row: a marker or ''
    /\ \E payload \in Payloads, marker \in {<<"A", ".", "1">>, <<>>} :
          norm = NormCalled(payload, marker)

NextNormalize == NormalizeReturn

SpecNormalize == InitNormalize /\ [][NextNormalize]_vars

\* The fill job and the requests its behaviour depends on. The job reads
\* neither filePaths nor the PDFs, a template file that changes is to it a
\* read that fails (ioOk = FALSE), and the requests the checks of POST
\* /fill-excel reject start nothing: these are the subject of NextStore.
Next ==
    \/ \E e \in ExcelIds, content \in TemplateFiles \cup {NotZip} :
          UploadExcel(e, content, TRUE)
    \/ \E f \in FileIds : Upload(f)
    \/ \E f \in FileIds : DeleteFile(f, TRUE)
    \/ \E e \in ExcelIds, f \in FileIds :
          requests < MaxJobs /\ FillExcelStart(e, f)
    \/ \E id \in ProgressIds : GetProgress(id)
    \/ \E q \in fillReqs, ioOk \in BOOLEAN : FillExcelScanned(q, ioOk)
    \/ \E j \in JobIds, ioOk \in BOOLEAN : ReadDone(j, ioOk)
    \/ \E j \in JobIds, outcome \in ChatOutcomes : ChatResponse(j, outcome)
    \/ \E j \in JobIds, outcome \in FallbackOutcomes : FallbackResponse(j, outcome)
    \/ \E j \in JobIds, ioOk \in BOOLEAN : WriteDone(j, ioOk)
    \/ \E j \in JobIds : Rejection(j)

Spec == Init /\ [][Next]_vars

\* the background task of job j takes a step: an awaited file operation or
\* chat-completion request returns or fails, or the rejection handler runs
TaskStep(j) ==
    \/ \E ioOk \in BOOLEAN : ReadDone(j, ioOk)
    \/ \E outcome \in ChatOutcomes : ChatResponse(j, outcome)
    \/ \E outcome \in FallbackOutcomes : FallbackResponse(j, outcome)
    \/ \E ioOk \in BOOLEAN : WriteDone(j, ioOk)
    \/ Rejection(j)

\* One fill job from its request to its end, with everything Next has around
\* it: the behaviours of Next that make a single POST /fill-excel request.
NextOneJob ==
    \/ \E e \in ExcelIds, content \in TemplateFiles \cup {NotZip} :
          UploadExcel(e, content, TRUE)
    \/ \E f \in FileIds : Upload(f)
    \/ \E f \in FileIds : DeleteFile(f, TRUE)
    \/ \E e \in ExcelIds, f \in FileIds :
          requests = 0 /\ FillExcelStart(e, f)
    \/ \E id \in ProgressIds : GetProgress(id)
    \/ \E q \in fillReqs, ioOk \in BOOLEAN : FillExcelScanned(q, ioOk)
    \/ \E j \in DOMAIN task : TaskStep(j)

SpecOneJob == Init /\ [][NextOneJob]_vars

\* SpecOneJob where every pre-scan read returns or fails and no task waits for
\* ever for what it awaits
FairSpecOneJob ==
    /\ SpecOneJob
    /\ WF_vars(\E q \in fillReqs, ioOk \in BOOLEAN : FillExcelScanned(q, ioOk))
    /\ \A j \in JobIds : WF_vars(TaskStep(j))

\* The stores and the requests that read, fill and empty them, up to the
\* creation of a fill job: uploads, deletion with a removal of the PDF that
\* works or fails, template files that change on disk, the accessors, and
\* POST /fill-excel with every kind of id.
NextStore ==
    \/ \E e \in ExcelIds, content \in TemplateFiles \cup {NotZip},
             unlinkOk \in BOOLEAN :
          UploadExcel(e, content, unlinkOk)
    \/ \E e \in ExcelIds, change \in FileChanges : UploadsChanged(e, change)
    \/ \E f \in FileIds : Upload(f)
    \/ \E f \in FileIds, unlinkOk \in BOOLEAN : DeleteFile(f, unlinkOk)
    \/ \E f \in RequestFileIds \ {NoId} : DeleteFileNoRecord(f)
    \/ \E f \in RequestFileIds \ {NoId} : GetPdf(f)
    \/ GetTranscriptions
    \/ \E f \in RequestFileIds : GetTranscription(f)
    \/ \E e \in RequestExcelIds, f \in RequestFileIds : FillExcelRejected(e, f)
    \/ \E e \in RequestExcelIds, f \in RequestFileIds :
          requests < MaxJobs /\ FillExcelStart(e, f)
    \/ \E q \in fillReqs, ioOk \in BOOLEAN : FillExcelScanned(q, ioOk)
    \/ \E id \in ProgressIds : GetProgress(id)

SpecStore == Init /\ [][NextStore]_vars

\* Fill jobs side by side: one request more than in Next, all for one document
\* and one template, whose last row is a question and whose other rows are
\* blank.  The service knows response_format, so no fallback request is sent.
QuestionWorkbooks ==
    {wb \in Workbooks :
        /\ \A r \in DOMAIN wb[1] : wb[1][r] = TxtBlank
        /\ wb[2][1] = TxtQuestion}

NextJobs ==
    \/ \E e \in ExcelIds, wb \in QuestionWorkbooks : UploadExcel(e, XlsxFile(wb), TRUE)
    \/ \E f \in FileIds : Upload(f)
    \/ \E e \in ExcelIds, f \in FileIds :
          requests < MaxJobs + 1 /\ FillExcelStart(e, f)
    \/ \E q \in fillReqs : FillExcelScanned(q, TRUE)
    \/ \E j \in DOMAIN task, ioOk \in BOOLEAN : ReadDone(j, ioOk)
    \/ \E j \in DOMAIN task, outcome \in {"valid", "invalid", "httpError"} :
          ChatResponse(j, outcome)
    \/ \E j \in DOMAIN task, ioOk \in BOOLEAN : WriteDone(j, ioOk)
    \/ \E j \in DOMAIN task : Rejection(j)

SpecJobs == Init /\ [][NextJobs]_vars

\* The documents and every handler that reads them: uploads that succeed and
\* fail, deletion, table export, chat, progress, and a fill job on a template
\* of QuestionWorkbooks.
DocFileIds == FileIds \cup {"f2"}

NextDocs ==
    \/ \E e \in ExcelIds, wb \in QuestionWorkbooks : UploadExcel(e, XlsxFile(wb), TRUE)
    \/ \E f \in DocFileIds : Upload(f)
    \/ \E f \in DocFileIds : UploadFailed(f)
    \/ \E f \in DocFileIds : DeleteFile(f, TRUE)
    \/ \E f \in DocFileIds \cup {InheritedKey}, ioOk \in BOOLEAN :
          Exports < MaxExports /\ ExportTables(f, ioOk)
    \/ \E f \in DocFileIds \cup {InheritedKey}, ioOk \in BOOLEAN :
          Exports < MaxExports /\ ExportSingleTab(f, ioOk)
    \/ \E f \in DocFileIds \cup {InheritedKey, NoId} : Chat(f)
    \/ \E id \in ProgressIds : GetProgress(id)
    \/ \E e \in ExcelIds, f \in DocFileIds :
          requests < MaxJobs /\ FillExcelStart(e, f)
    \/ \E q \in fillReqs : FillExcelScanned(q, TRUE)
    \/ \E j \in DOMAIN task : ReadDone(j, TRUE)
    \/ \E j \in DOMAIN task, outcome \in {"valid", "httpError"} :
          ChatResponse(j, outcome)
    \/ \E j \in DOMAIN task : WriteDone(j, TRUE)
    \/ \E j \in DOMAIN task : Rejection(j)

SpecDocs == Init /\ [][NextDocs]_vars

\* ------------------------------------------- the page: progress polling
\* fillExcelWorkbook (src/public/script.js) after POST /fill-excel answered
\* with a jobId: setInterval(callback, 500)
StartPolling(r) ==
    /\ pollInterval.state = "none"
    /\ r \in DOMAIN fillResponses
    /\ fillResponses[r].code = 200
    /\ pollInterval' = [state |-> "set", jobId |-> fillResponses[r].jobId]
    /\ UNCHANGED <<fillVars, an, ex, norm, uploadQueue, isUploading, uploading,
                   uploadLog, fetches, downloads, restarted>>

\* the poll callbacks that have been started and have not run to their end
InFlight ==
    fetches.sent + fetches.processing + fetches.complete + fetches.error
        + fetches.notFound + fetches.failed

\* the interval fires: a new run of the callback sends its progress request,
\* whether or not earlier runs still wait for theirs
Tick ==
    /\ pollInterval.state = "set"
    /\ InFlight < MaxCallbacks
    /\ fetches' = [fetches EXCEPT !.sent = @ + 1]
    /\ UNCHANGED <<fillVars, an, ex, norm, uploadQueue, isUploading, uploading,
                   uploadLog, pollInterval, downloads, restarted>>

\* what a callback finds in the body GET /fill-excel-progress/:jobId answers
\* with: progress.status, which the 404 body {error} does not have
FetchedStage(id) ==
    IF ProgressResponse(id).code = 404 THEN "notFound"
    ELSE ProgressResponse(id).status

\* the server handles one progress request of the page and the response
\* reaches the page
ProgressServed ==
    /\ fetches.sent > 0
    /\ LET stage == FetchedStage(pollInterval.jobId) IN
       fetches' = [fetches EXCEPT !.sent = @ - 1, ![stage] = @ + 1]
    /\ UNCHANGED <<fillVars, an, ex, norm, uploadQueue, isUploading, uploading,
                   uploadLog, pollInterval, downloads, restarted>>

\* fetch of a progress request rejects: the server cannot be reached
FetchFailed ==
    /\ fetches.sent > 0
    /\ fetches' = [fetches EXCEPT !.sent = @ - 1, !.failed = @ + 1]
    /\ UNCHANGED <<fillVars, an, ex, norm, uploadQueue, isUploading, uploading,
                   uploadLog, pollInterval, downloads, restarted>>

\* a callback goes on after its awaits: processing shows the counts; complete
\* clears the interval and clicks the download link; error and a rejected
\* fetch clear the interval (in the branch or in the catch block); a body
\* without a status matches none of the branches
CallbackResumes(stage) ==
    /\ stage # "sent"
    /\ fetches[stage] > 0
    /\ fetches' = [fetches EXCEPT ![stage] = @ - 1]
    /\ pollInterval' = IF stage \in {"complete", "error", "failed"}
                       THEN [pollInterval EXCEPT !.state = "cleared"]
                       ELSE pollInterval
    /\ downloads' = IF stage = "complete"
                    THEN Put(downloads, pollInterval.jobId,
                             IF pollInterval.jobId \in DOMAIN downloads
                             THEN downloads[pollInterval.jobId] + 1 ELSE 1)
                    ELSE downloads
    /\ UNCHANGED <<fillVars, an, ex, norm, uploadQueue, isUploading, uploading,
                   uploadLog, restarted>>

\* the server process is started again: the stores of index.js:447-455 are
\* empty objects again and the calls that were running are gone; the files
\* under uploads/ and the page stay as they are
Restart ==
    /\ ~restarted
    /\ restarted' = TRUE
    /\ documentAnalysis' = <<>>
    /\ filePaths' = <<>>
    /\ excelTemplates' = <<>>
    /\ filledWorkbooks' = <<>>
    /\ fillJobs' = <<>>
    /\ task' = <<>>
    /\ fillReqs' = {}
    /\ UNCHANGED <<disk, openAiConfigured, requests, usedNames, an, ex, norm,
                   pdfFiles, deleted, uploads, fillResponses, uploadQueue,
                   isUploading, uploading, uploadLog, pollInterval, fetches,
                   downloads>>

\* A fill job on a template of QuestionWorkbooks, the page polling its
\* progress, and a restart of the server; no fill request is made after the
\* restart.
NextPoller ==
    \/ \E e \in ExcelIds, wb \in QuestionWorkbooks : UploadExcel(e, XlsxFile(wb), TRUE)
    \/ \E f \in FileIds : Upload(f)
    \/ \E e \in ExcelIds, f \in FileIds :
          requests < MaxJobs /\ ~restarted /\ FillExcelStart(e, f)
    \/ \E q \in fillReqs : FillExcelScanned(q, TRUE)
    \/ \E j \in DOMAIN task : ReadDone(j, TRUE)
    \/ \E j \in DOMAIN task, outcome \in {"valid", "httpError"} :
          ChatResponse(j, outcome)
    \/ \E j \in DOMAIN task, ioOk \in BOOLEAN : WriteDone(j, ioOk)
    \/ \E j \in DOMAIN task : Rejection(j)
    \/ \E r \in DOMAIN fillResponses : StartPolling(r)
    \/ Tick
    \/ ProgressServed
    \/ FetchFailed
    \/ \E stage \in FetchStages : CallbackResumes(stage)
    \/ Restart

SpecPoller == Init /\ [][NextPoller]_vars

\* SpecPoller where the timer fires, every request is answered or fails,
\* every callback runs on, and the server's reads, requests and writes return
FairSpecPoller ==
    /\ SpecPoller
    /\ WF_vars(Tick)
    /\ WF_vars(ProgressServed)
    /\ \A stage \in FetchStages : WF_vars(CallbackResumes(stage))
    /\ WF_vars(\E q \in fillReqs : FillExcelScanned(q, TRUE))
    /\ \A j \in JobIds :
          WF_vars(\/ ReadDone(j, TRUE)
                  \/ ChatResponse(j, "valid")
                  \/ \E ioOk \in BOOLEAN : WriteDone(j, ioOk)
                  \/ Rejection(j))

\* ------------------------------------------------------------------ claims
\* C1: the only status transitions of a fill job are processing -> complete
\* and processing -> error: a job record is created with status processing and
\* no step changes a status that is complete or error.
C1_StatusTransitions ==
    [][ /\ DOMAIN fillJobs \subseteq DOMAIN fillJobs'
        /\ \A j \in DOMAIN fillJobs' \ DOMAIN fillJobs :
              fillJobs'[j].status = "processing"
        /\ \A j \in DOMAIN fillJobs :
              fillJobs'[j].status # fillJobs[j].status
              => /\ fillJobs[j].status = "processing"
                 /\ fillJobs'[j].status \in {"complete", "error"} ]_vars

\* a job that answered a row has ended in error: it was created, ran as
\* processing and was moved to error by the rejection handler
C1_Witness ==
    \E j \in DOMAIN fillJobs :
        fillJobs[j].status = "error" /\ fillJobs[j].current = 1

Scanned(j) ==
    LET path == excelTemplates[task[j].excelId].path IN
    IF ReadsWorkbook(path, TRUE) THEN Rows(disk[path].sheets) ELSE <<>>

\* the file of the template of job j is the one the pre-scan read
TemplateUnchanged(j) == ReadsWorkbook(excelTemplates[task[j].excelId].path, TRUE)

\* the rows the fill pass of job j read are classified by the fill pass as the
\* pre-scan classified the rows of the template
SameClassification(j) ==
    LET scanned == Scanned(j) IN
    /\ Len(task[j].rows) = Len(scanned)
    /\ \A i \in 1..Len(scanned) :
          ScanCounts(scanned[i].text) = FillAnswers(task[j].rows[i].text)

\* C3: when a fill job reaches status complete and the row classification is
\* the same in the pre-scan and in the fill pass, current equals total.
C3_CompleteMeansAll ==
    \A j \in DOMAIN fillJobs :
        (fillJobs[j].status = "complete" /\ SameClassification(j))
        => fillJobs[j].current = fillJobs[j].total

\* a job over a template with a marker row and a question row has completed
C3_Witness ==
    \E j \in DOMAIN fillJobs :
        /\ fillJobs[j].status = "complete"
        /\ SameClassification(j)
        /\ fillJobs[j].total = 1
        /\ \E i \in 1..Len(task[j].rows) : task[j].rows[i].text = TxtMarker

\* the call of generateAnswerWithAzureOpenAI for the current row of job j ends
\* in this step
AnswerCallEnds(j) ==
    /\ task[j].pc \in {"request", "fallback"}
    /\ ~(task'[j].pc \in {"request", "fallback"} /\ task'[j].idx = task[j].idx)

\* C4: for every question row of a running job, whatever the outcome of the
\* row's answer-generation call, processFillJob writes a value into the row's
\* second column, increments current by one and goes on; the job is not moved
\* to error by the row's answer failure.
C4_RowAlwaysAnswered ==
    [][ \A j \in DOMAIN task :
          AnswerCallEnds(j)
          => /\ task[j].idx \in DOMAIN task'[j].cells
             /\ fillJobs'[j].current = fillJobs[j].current + 1
             /\ task'[j].pc # "rejected" ]_vars

\* C5: generateAnswerWithAzureOpenAI makes at most 3 attempts, and a call in
\* which no attempt produced a valid payload returns the sentinel payload.
C5_SentinelOnExhaustion ==
    /\ [](\A j \in DOMAIN task : task[j].attempt <= 3)
    /\ [][ \A j \in DOMAIN task :
            (AnswerCallEnds(j)
             /\ ~(/\ task[j].idx \in DOMAIN task'[j].cells
                  /\ task'[j].cells[task[j].idx] = AnswerText))
            => /\ task[j].idx \in DOMAIN task'[j].cells
               /\ task'[j].cells[task[j].idx] = Sentinel ]_vars

\* C6: if the first k submit+poll cycles of analyzePDF end in HTTP 429 and the
\* next one succeeds, the call succeeds after exactly k+1 cycles for k <= 3;
\* after 4 cycles ended in 429 the call has failed with a rate-limit error
\* naming 4 attempts, and no fifth cycle is started.
C6_RateLimitRetry ==
    /\ an.submits <= 4
    /\ an.pc = "returned" => (an.rateLimited <= 3 /\ an.submits = an.rateLimited + 1)
    /\ (an.pc = "threw" /\ an.message = "Rate limit exceeded") => an.rateLimited = 4
    /\ an.rateLimited = 4
       => /\ an.pc = "threw"
          /\ an.message = "Rate limit exceeded"
          /\ an.tried = 4
          /\ an.submits = 4

\* three cycles ended in 429 and the fourth succeeded
C6_Witness ==
    an.pc = "returned" /\ an.rateLimited = 3 /\ an.submits = 4

\* the categorized message of the catch block for a request error
Categorized(e) ==
    IF e.kind = "http" /\ e.status = 401 THEN "Authentication failed"
    ELSE IF e.kind = "http" /\ e.status = 413 THEN "File too large"
    ELSE IF e.kind = "http" /\ e.status = 400 THEN "Invalid PDF file format"
    ELSE IF e.kind = "timeout" THEN "Request timeout"
    ELSE "Document analysis failed"

\* C7: analyzePDF never retries on a failure other than HTTP 429: such a
\* failure ends the call after the cycle in which it occurred with the
\* categorized error, and a configuration error ends it with the original
\* error before any HTTP request is sent.
C7_NoRetryOnPermanentError ==
    /\ an.pc = "backoff" => an.lastError = [kind |-> "http", status |-> 429]
    /\ an.submits <= an.rateLimited + 1
    /\ (an.pc = "threw" /\ an.lastError.kind \notin {"config", "none"}
        /\ an.lastError # [kind |-> "http", status |-> 429])
       => /\ an.message = Categorized(an.lastError)
          /\ an.submits = an.rateLimited + 1
    /\ an.config # "ok"
       => /\ an.submits = 0 /\ an.polls = 0
          /\ an.pc \in {"idle", "threw"}
          /\ an.pc = "threw"
             => an.message \in
                  {"Missing or placeholder AZURE_CONTENT_UNDERSTANDING_ENDPOINT",
                   "Invalid AZURE_CONTENT_UNDERSTANDING_ENDPOINT",
                   "Missing or placeholder AZURE_CONTENT_UNDERSTANDING_KEY"}

\* a poll of the second cycle failed with HTTP 413 and ended the call
C7_Witness ==
    /\ an.pc = "threw"
    /\ an.lastError = [kind |-> "http", status |-> 413]
    /\ an.rateLimited = 1
    /\ an.cyclePolls >= 2

\* C8: within one submit+poll cycle the status endpoint is polled at least
\* once and at most 30 times, and no poll is issued after a status other than
\* 'running' has been read.
C8_PollBounds ==
    /\ an.cyclePolls <= 30
    /\ an.pc = "poll"
       => /\ an.cyclePolls >= 1
          /\ an.cyclePolls = an.attempts + 1
          /\ an.status \in {"none", "running"}
    /\ an.status \notin {"none", "running"}
       => /\ an.pc \in {"returned", "threw"}
          /\ an.cyclePolls = an.attempts
    /\ an.pc = "returned" => an.cyclePolls >= 1

\* the thirtieth poll of a cycle is in flight
C8_Witness ==
    an.pc = "poll" /\ an.cyclePolls = 30 /\ an.status = "running"

IsMarkerRow(j, i) == markerCellRegex(Trim(task[j].rows[i].text))

\* C10: a row whose first-column text matches the section-marker pattern is
\* skipped by the pre-scan and by the fill pass: it is not counted in total,
\* current is not incremented for it, no answer is requested for it; and the
\* two passes classify every row identically.
C10_MarkerRowsSkipped ==
    /\ \A txt \in RowTexts \cup ProbeTexts :
          /\ ScanCounts(txt) = FillAnswers(txt)
          /\ markerCellRegex(Trim(txt)) => (~ScanCounts(txt) /\ ~FillAnswers(txt))
    /\ \A j \in DOMAIN task :
          LET scanned == Scanned(j) IN
          /\ TemplateUnchanged(j)
             => fillJobs[j].total =
                  Cardinality({i \in 1..Len(scanned) :
                                 /\ Trim(scanned[i].text) # <<>>
                                 /\ ~markerCellRegex(Trim(scanned[i].text))})
          /\ task[j].pc \in {"request", "fallback"} => ~IsMarkerRow(j, task[j].idx)
          /\ \A i \in DOMAIN task[j].cells : ~IsMarkerRow(j, i)
          /\ fillJobs[j].current = Cardinality(DOMAIN task[j].cells)

\* the fill pass stepped over a marker row in the first worksheet and has the
\* request for the question row of the second worksheet in flight
C10_Witness ==
    \E j \in DOMAIN task :
        /\ task[j].pc = "request"
        /\ task[j].idx = 2
        /\ IsMarkerRow(j, 1)
        /\ fillJobs[j].total = 1
        /\ fillJobs[j].current = 0

C12_JobKeepsDocumentText ==
    /\ [](\A j \in DOMAIN task :
            /\ task[j].pc \in {"request", "fallback"}
               => task[j].sent = task[j].analysis.content
            /\ fillJobs[j].status = "complete"
               => fillJobs[j].result.filename
                    = <<task[j].analysis.filename, "_filled.xlsx">>)
    /\ [][ /\ \A j \in DOMAIN task : task'[j].analysis = task[j].analysis
           /\ deleted' # deleted => (task' = task /\ fillJobs' = fillJobs) ]_vars

\* a job that was processing when its document was deleted has answered its
\* two question rows with the text of the document and is complete
C12_Witness ==
    \E f \in DOMAIN deleted : \E j \in deleted[f] :
        /\ fillJobs[j].status = "complete"
        /\ fillJobs[j].current = 2
        /\ task[j].sent = "text"
        /\ fillJobs[j].result.filename = <<"doc.pdf", "_filled.xlsx">>

\* the request names no stored template, no stored analysis, a template whose
\* file is not on disk, or one whose file does not start with PK
InvalidFillRequest(e, f) ==
    \/ e \notin DOMAIN excelTemplates
    \/ f \notin DOMAIN documentAnalysis
    \/ excelTemplates[e].path \notin DOMAIN disk
    \/ disk[excelTemplates[e].path].header # "PK"

\* C13: POST /fill-excel with a missing or unknown excelId, a missing or
\* unknown fileId, a template file absent from disk or a template file failing
\* the ZIP check is rejected with a client error, and no such request is taken
\* up: it creates no job record and starts no task.
C13_InvalidRequestRejected ==
    \A e \in RequestExcelIds, f \in RequestFileIds :
        InvalidFillRequest(e, f)
        => /\ FillExcelValidation(e, f).code = 400
           /\ ~(ENABLED FillExcelStart(e, f))

\* C14: when POST /fill-excel sends {jobId, total}, the job record exists
\* under jobId with status processing, current = 0 and the total of the
\* response, and its task has not gone past the first await of processFillJob:
\* it has read no row and issued no answer-generation call.
C14_RespondsBeforeTaskRuns ==
    [][ \A r \in DOMAIN fillResponses' \ DOMAIN fillResponses :
          LET resp == fillResponses'[r] IN
          resp.code = 200
          => /\ resp.jobId \in DOMAIN fillJobs' \ DOMAIN fillJobs
             /\ fillJobs'[resp.jobId].status = "processing"
             /\ fillJobs'[resp.jobId].current = 0
             /\ fillJobs'[resp.jobId].total = resp.total
             /\ task'[resp.jobId].pc \in {"reading", "rejected"}
             /\ task'[resp.jobId].attempt = 0
             /\ task'[resp.jobId].cells = <<>> ]_vars

\* the response for a template with two question rows has been sent and the
\* task of the job is still at its first await
C14_Witness ==
    \E r \in DOMAIN fillResponses :
        /\ fillResponses[r].code = 200
        /\ fillResponses[r].total = 2
        /\ fillJobs[fillResponses[r].jobId].status = "processing"
        /\ task[fillResponses[r].jobId].pc = "reading"

\* row a comes before row b in worksheet order, then row order
RowBefore(a, b) == a.sheet < b.sheet \/ (a.sheet = b.sheet /\ a.row < b.row)

C16_CompleteHasResult ==
    \A id \in ProgressIds :
        LET r == ProgressResponse(id) IN
        (r.code = 200 /\ r.status = "complete")
        => /\ r.result # NoResult
           /\ r.result.filledId \in DOMAIN filledWorkbooks
           /\ filledWorkbooks[r.result.filledId].path \in DOMAIN disk
           /\ disk[filledWorkbooks[r.result.filledId].path] = task[id].cells
           /\ DownloadResponse(r.result.filledId) = 200

\* a progress query returns complete for a job that answered two rows
C16_Witness ==
    \E id \in ProgressIds :
        /\ ProgressResponse(id).code = 200
        /\ ProgressResponse(id).status = "complete"
        /\ ProgressResponse(id).current = 2
        /\ DownloadResponse(ProgressResponse(id).result.filledId) = 200

\* C17: when processFillJob throws, the step that throws leaves the job record
\* as it is, and the rejection handler changes only status (to error) and
\* error (to the message of the exception): current keeps its value, result
\* stays null, and no FilledWorkbook is registered for the job.
C17_FailureKeepsProgress ==
    /\ [](\A j \in DOMAIN fillJobs :
            /\ task[j].pc = "settled" => fillJobs[j].status = "error"
            /\ fillJobs[j].status = "error"
               => /\ fillJobs[j].error = task[j].message
                  /\ fillJobs[j].result = NoResult
                  /\ fillJobs[j].current = Cardinality(DOMAIN task[j].cells)
                  /\ j \notin DOMAIN filledWorkbooks)
    /\ [][ \A j \in DOMAIN fillJobs :
            /\ (task[j].pc # "rejected" /\ task'[j].pc = "rejected")
               => fillJobs'[j] = fillJobs[j]
            /\ (fillJobs[j].status # "error" /\ fillJobs'[j].status = "error")
               => /\ task[j].pc = "rejected"
                  /\ fillJobs'[j] = [fillJobs[j] EXCEPT
                                       !.status = "error",
                                       !.error = task[j].message] ]_vars

\* a job whose second question row could not be answered has ended in error
\* with the first row counted
C17_Witness ==
    \E j \in DOMAIN fillJobs :
        /\ fillJobs[j].status = "error"
        /\ fillJobs[j].error = "Azure OpenAI answer generation failed"
        /\ fillJobs[j].current = 1
        /\ fillJobs[j].total = 2

\* C18: GET /fill-excel-progress/:jobId returns the status, current, total,
\* error and result of the job for a jobId that has a record, and answers 404
\* for every other jobId; it creates no job record and changes none.
C18_ProgressReadOnly ==
    /\ [](\A id \in ProgressIds :
            IF id \in DOMAIN fillJobs
            THEN /\ ProgressResponse(id).code = 200
                 /\ ProgressResponse(id).status = fillJobs[id].status
                 /\ ProgressResponse(id).current = fillJobs[id].current
                 /\ ProgressResponse(id).total = fillJobs[id].total
                 /\ ProgressResponse(id).error = fillJobs[id].error
                 /\ ProgressResponse(id).result = fillJobs[id].result
            ELSE ProgressResponse(id).code = 404)
    /\ [][ (\E id \in ProgressIds : GetProgress(id)) => fillJobs' = fillJobs ]_vars

\* the cells of the table that address row r and column c
CellsAt(table, r, c) ==
    {i \in 1..Len(table.cells) :
        table.cells[i].rowIndex = r /\ table.cells[i].columnIndex = c}

RECURSIVE AllLines(_, _)
AllLines(pages, p) ==
    IF p > Len(pages) THEN <<>> ELSE pages[p] \o AllLines(pages, p + 1)

\* the lines from i on joined by newlines
RECURSIVE JoinedByNewlines(_, _)
JoinedByNewlines(lines, i) ==
    IF i > Len(lines) THEN <<>>
    ELSE IF i = Len(lines) THEN lines[i]
    ELSE lines[i] \o <<NL>> \o JoinedByNewlines(lines, i + 1)

\* C20 as stated: the extracted text is the contents of all lines, page by
\* page and line by line, joined by newlines, with trailing whitespace
\* trimmed.
C20_TextIsJoinedLines ==
    ex.pc = "returned"
    => ex.text = TrimRight(JoinedByNewlines(AllLines(ex.pages, 1), 1))

\* the text of the grid the claim C19 describes, row by row: the contents of
\* the cells of a row separated by ' | ', a newline after each row
RECURSIVE CellsJoined(_, _, _)
CellsJoined(table, r, c) ==
    LET at == CellsAt(table, r, c)
        content == IF at = {} THEN <<>>
                   ELSE table.cells[CHOOSE i \in at : TRUE].content
    IN IF c = table.columnCount - 1 THEN content
       ELSE content \o <<" ", "|", " ">> \o CellsJoined(table, r, c + 1)

RECURSIVE RowsJoined(_, _)
RowsJoined(table, r) ==
    IF r = table.rowCount THEN <<>>
    ELSE CellsJoined(table, r, 0) \o <<NL>> \o RowsJoined(table, r + 1)

\* the rendering of the tables from i on: per table an empty line, the header
\* line, the rows and an empty line
RECURSIVE Rendering(_, _)
Rendering(tables, i) ==
    IF i > Len(tables) THEN <<>>
    ELSE <<NL, "--- Table ", ToString(i), " (", ToString(tables[i].rowCount),
           " rows x ", ToString(tables[i].columnCount), " columns) ---", NL>>
         \o RowsJoined(tables[i], 0) \o <<NL>> \o Rendering(tables, i + 1)

\* C20 amended: the extracted text is, with the whitespace at both of its ends
\* trimmed, the contents of all lines joined by newlines, followed - when the
\* response has tables - by a newline, two empty lines, the banner
\* === TABLES ===, an empty line and the rendering of every table.
C20_TextIsLinesThenTables ==
    ex.pc = "returned"
    => LET lines == JoinedByNewlines(AllLines(ex.pages, 1), 1) IN
       ex.text =
         IF ex.tables = <<>> THEN Trim(lines)
         ELSE Trim(lines \o (IF AllLines(ex.pages, 1) = <<>> THEN <<>> ELSE <<NL>>)
                   \o <<NL, NL, "=== TABLES ===", NL, NL>>
                   \o Rendering(ex.tables, 1))

\* a response with a line on each of its two pages and with two tables has
\* been extracted
C20_Witness ==
    /\ ex.pc = "returned"
    /\ Len(ex.pages[1]) = 1 /\ Len(ex.pages[2]) = 1
    /\ Len(ex.tables) = 2

\* the number a confidence stands for: the number itself, the number its
\* string means, no finite number otherwise
MeantConfidence(c) ==
    IF c.type = "number" THEN c.num
    ELSE IF c.type = "string" /\ \E n \in NumericStrings : n.text = c.str
    THEN Finite((CHOOSE n \in NumericStrings : n.text = c.str).means)
    ELSE NaN

\* the payload is one the claim has rejected: no object, no string answer, an
\* answer that is empty after trimming, or no finite confidence
Rejectable(payload) ==
    \/ payload.kind # "object"
    \/ payload.answer.type # "string"
    \/ Trim(payload.answer.str) = <<>>
    \/ ~MeantConfidence(payload.confidence).finite

C22_FallbackAtMostOnce ==
    \A j \in DOMAIN task :
        /\ task[j].fallbacks <= 1
        /\ task[j].pc = "fallback" => task[j].cause = "http400_response_format"

\* job j and its background task are the same before and after the step
JobUntouched(j) ==
    /\ j \in DOMAIN fillJobs
    /\ fillJobs'[j] = fillJobs[j]
    /\ task'[j] = task[j]

\* the background task of job j can take its next step
CanGoOn(j) ==
    CASE task[j].pc = "reading" -> ENABLED ReadDone(j, TRUE)
      [] task[j].pc = "request" -> ENABLED ChatResponse(j, "valid")
      [] task[j].pc = "fallback" -> ENABLED FallbackResponse(j, "valid")
      [] task[j].pc = "writing" -> ENABLED WriteDone(j, TRUE)
      [] OTHER -> TRUE

\* C23: fill jobs running side by side are isolated: every step changes the
\* record and the task of at most one job, so a step or a failure of one job's
\* task leaves every other job's record as it was; no step of a task changes
\* a template, its file or a document; and whatever the other jobs did, a job
\* that is processing can take its next step towards complete.
C23_JobsIsolated ==
    /\ [][ /\ \A j, k \in DOMAIN fillJobs' :
                j # k => JobUntouched(j) \/ JobUntouched(k)
           /\ (\E j \in DOMAIN task : task'[j] # task[j])
              => /\ excelTemplates' = excelTemplates
                 /\ documentAnalysis' = documentAnalysis
                 /\ \A e \in DOMAIN excelTemplates :
                       disk'[excelTemplates[e].path] = disk[excelTemplates[e].path]
         ]_vars
    /\ [](\A j \in DOMAIN fillJobs : fillJobs[j].status = "processing" => CanGoOn(j))

\* the second job has ended in error while the first, created before it and
\* still processing, has answered its rows and is writing its workbook
C23_Witness ==
    /\ 2 \in DOMAIN fillJobs
    /\ fillJobs[2].status = "error"
    /\ fillJobs[1].status = "processing"
    /\ task[1].pc = "writing"
    /\ fillJobs[1].current = fillJobs[1].total
    /\ fillJobs[1].total > 0

\* C24: in DELETE /files/:fileId for a stored document a failure to remove the
\* PDF does not block the cleanup: once the request has answered success the
\* fileId is in neither filePaths nor documentAnalysis, whether the PDF is
\* gone or not; and for a fileId with no stored analysis the request answers
\* not found and changes nothing.
C24_DeleteCleansUp ==
    /\ \A f \in DOMAIN deleted :
          f \notin DOMAIN filePaths /\ f \notin DOMAIN documentAnalysis
    /\ \A f \in RequestFileIds \ {NoId} :
          f \notin DOMAIN documentAnalysis
          => /\ DeleteFileResponse(f) = 404
             /\ ENABLED DeleteFileNoRecord(f)

\* C25: the total of a fill job is fixed at creation: no step of the background
\* task, of its rejection handler or of a request handler removes a job
\* record or changes its total.
C25_TotalFixed ==
    [][ \A j \in DOMAIN fillJobs :
          /\ j \in DOMAIN fillJobs'
          /\ fillJobs'[j].total = fillJobs[j].total ]_vars

\* a job created with total 2 has ended in error before its fill pass read a
\* row, and its total is still 2
C25_Witness ==
    \E j \in DOMAIN fillJobs :
        /\ fillJobs[j].status = "error"
        /\ fillJobs[j].error = "readFile failed"
        /\ fillJobs[j].current = 0
        /\ fillJobs[j].total = 2

\* C26: the current of a job never goes down: a job is created with current 0,
\* a step leaves current as it is or adds exactly 1 to it, current is the
\* number of rows the task has answered, and the step that moves the job to
\* error leaves it as it is.
C26_CurrentMonotone ==
    [][ /\ \A j \in DOMAIN fillJobs' \ DOMAIN fillJobs : fillJobs'[j].current = 0
        /\ \A j \in DOMAIN fillJobs :
              /\ fillJobs'[j].current \in {fillJobs[j].current, fillJobs[j].current + 1}
              /\ fillJobs'[j].current = Cardinality(DOMAIN task'[j].cells)
              /\ fillJobs'[j].status = "error"
                 => fillJobs'[j].current = fillJobs[j].current
              /\ ProgressResponse(j)'.current >= ProgressResponse(j).current ]_vars

\* a job has ended in error after both of its rows were answered: progress
\* queries saw 0, 1 and 2, and still see 2
C26_Witness ==
    \E j \in DOMAIN fillJobs :
        /\ ProgressResponse(j).status = "error"
        /\ ProgressResponse(j).error = "writeFile failed"
        /\ ProgressResponse(j).current = 2

NewTemplatesAreZip ==
    \A e \in DOMAIN excelTemplates' \ DOMAIN excelTemplates :
        /\ excelTemplates'[e].path \in DOMAIN disk'
        /\ disk'[excelTemplates'[e].path].header = "PK"

\* a job created in the step comes from a POST /fill-excel request that is
\* answered in the step, and a request is taken on only for a template whose
\* file has the ZIP header at that moment
NewJobsPassedCheck ==
    /\ \A q \in fillReqs' \ fillReqs : isZipFileHeader(excelTemplates[q.excelId].path)
    /\ \A j \in DOMAIN fillJobs' \ DOMAIN fillJobs :
          \E q \in fillReqs \ fillReqs' : task'[j].excelId = q.excelId

\* the files of uploads that POST /upload-excel rejected and could not remove
RejectedFiles == {path \in DOMAIN disk : path[1] = "rejected"}

C29_DocumentPresentAtCreation ==
    [][ \A j \in DOMAIN fillJobs' \ DOMAIN fillJobs :
          /\ task'[j].fileId \in DOMAIN documentAnalysis'
          /\ task'[j].pc = "reading" ]_vars

\* C30: every call of analyzePDF terminates, provided each of its requests
\* returns or fails: it issues at most 4 submit requests and at most 120
\* status polls, whatever the service answers, and it returns or throws.
C30_AnalyzeTerminates ==
    /\ [](an.submits <= 4 /\ an.polls <= 120)
    /\ <>(an.pc \in {"returned", "threw"})

\* a call has ended after 4 submit requests and 120 status polls: three cycles
\* whose thirtieth poll was answered with HTTP 429, and a fourth
C30_Witness ==
    /\ an.pc \in {"returned", "threw"}
    /\ an.submits = 4
    /\ an.polls = 120

\* C31: every fill job that is created eventually reaches status complete or
\* error, provided every file operation and every chat-completion request
\* eventually returns or fails; a job whose template has no question row too.
C31_JobTerminates ==
    \A j \in JobIds :
        (j \in DOMAIN fillJobs)
            ~> (j \in DOMAIN fillJobs /\ fillJobs[j].status \in {"complete", "error"})

\* a job for a template without a question row is complete
C31_Witness ==
    \E j \in DOMAIN fillJobs :
        /\ fillJobs[j].total = 0
        /\ fillJobs[j].status = "complete"
        /\ task[j].rows # <<>>

\* C32: once a fill job is complete or error, no step removes or changes its
\* record, and GET /fill-excel-progress/:jobId answers after the step what it
\* answered before it: the same status, current, total, error and result.
C32_TerminalSnapshotStable ==
    [][ \A j \in DOMAIN fillJobs :
          fillJobs[j].status \in {"complete", "error"} =>
              /\ j \in DOMAIN fillJobs'
              /\ fillJobs'[j] = fillJobs[j]
              /\ ProgressResponse(j)' = ProgressResponse(j) ]_vars

\* a job is complete with its result and another step has been taken since:
\* the document it was filled from is deleted
C32_Witness ==
    \E j \in DOMAIN fillJobs :
        /\ fillJobs[j].status = "complete"
        /\ ProgressResponse(j).result = fillJobs[j].result
        /\ fillJobs[j].result # NoResult
        /\ task[j].fileId \in DOMAIN deleted
        /\ deleted[task[j].fileId] = {}

\* C33: after DELETE /files/:fileId has answered success for a document, every
\* later GET /pdf/:fileId for that fileId answers not found, also when the
\* removal of the physical file failed during the delete.
C33_DeletedPdfNotFound ==
    \A f \in DOMAIN deleted : PdfResponse(f) = 404

\* --------------------------------------------- the page: the upload queue
\* validateFile(file): a PDF by its type or by its name, of at most maxSize
\* bytes
validateFile(file) ==
    /\ file.type = "application/pdf" \/ file.pdfName
    /\ ~(file.size > maxSize)

\* the kinds of file a user drops or selects
FileKinds ==
    [type : {"application/pdf", "text/plain"}, pdfName : BOOLEAN,
     size : {1, maxSize, maxSize + 1}]

\* the files of one drop or selection: one or two files of any kind, numbered
\* on in the order they are offered
FileLists(offered) ==
    {<<[id |-> offered + 1, kind |-> k]>> : k \in FileKinds}
    \cup {<<[id |-> offered + 1, kind |-> k1], [id |-> offered + 2, kind |-> k2]>> :
              k1 \in FileKinds, k2 \in FileKinds}

\* the variables of the upload queue as one record
QueueState ==
    [uploadQueue |-> uploadQueue, isUploading |-> isUploading,
     uploading |-> uploading, uploadLog |-> uploadLog]

\* the upload queue is u after the step
Becomes(u) ==
    /\ uploadQueue' = u.uploadQueue
    /\ isUploading' = u.isUploading
    /\ uploading' = u.uploading
    /\ uploadLog' = u.uploadLog

\* processUploadQueue from the test of its while loop to its next await or
\* its end: the first file is shifted off the queue and uploadFile sends its
\* request, or the loop ends and isUploading is false again
LoopTest(u) ==
    IF u.uploadQueue # <<>>
    THEN [u EXCEPT !.uploadQueue = Tail(@),
                   !.uploading = @ \cup {[pc |-> "xhr", file |-> Head(u.uploadQueue)]},
                   !.uploadLog.sent = Append(@, Head(u.uploadQueue))]
    ELSE [u EXCEPT !.isUploading = FALSE]

\* processUploadQueue without the test of isUploading
processUploadQueueNoFlag(u) ==
    IF u.uploadQueue = <<>> THEN u
    ELSE LoopTest([u EXCEPT !.isUploading = TRUE])

\* a call of processUploadQueue up to its first await
processUploadQueue(u) ==
    IF u.isUploading \/ u.uploadQueue = <<>> THEN u
    ELSE LoopTest([u EXCEPT !.isUploading = TRUE])

\* the for loop of handleFiles: the files that pass validateFile are pushed
RECURSIVE PushValid(_, _)
PushValid(u, files) ==
    IF files = <<>> THEN u
    ELSE LET file == Head(files)
             pushed == [u EXCEPT !.uploadQueue = Append(@, file.id),
                                 !.uploadLog.queued = Append(@, file.id),
                                 !.uploadLog.late =
                                     IF u.isUploading THEN @ \cup {file.id} ELSE @]
         IN PushValid(IF validateFile(file.kind) THEN pushed ELSE u, Tail(files))

\* handleFiles(files): push, then call processUploadQueue
handleFiles(u, files) ==
    processUploadQueue(
        PushValid([u EXCEPT !.uploadLog.offered = @ + Len(files)], files))

\* a drop or a selection of files
HandleFiles(files) ==
    /\ uploadLog.offered + Len(files) <= MaxFiles
    /\ Becomes(handleFiles(QueueState, files))
    /\ UNCHANGED <<fillVars, an, ex, norm, pollInterval, fetches, downloads,
                   restarted>>

\* the request of uploadFile ends and the promise settles (xhr.onload with
\* status 200, or another status or xhr.onerror): after a success with files
\* left the call waits 2 seconds, after a failure the catch block logs and
\* the loop goes on at once
UploadSettled(call, ok) ==
    /\ call \in uploading
    /\ call.pc = "xhr"
    /\ LET u == [QueueState EXCEPT
                    !.uploading = @ \ {call},
                    !.uploadLog.failed = IF ok THEN @ ELSE @ \cup {call.file}]
       IN Becomes(IF ok /\ u.uploadQueue # <<>>
                  THEN [u EXCEPT !.uploading = @ \cup {[call EXCEPT !.pc = "delay"]}]
                  ELSE LoopTest(u))
    /\ UNCHANGED <<fillVars, an, ex, norm, pollInterval, fetches, downloads,
                   restarted>>

\* the 2 seconds between two uploads are over
DelayDone(call) ==
    /\ call \in uploading
    /\ call.pc = "delay"
    /\ Becomes(LoopTest([QueueState EXCEPT !.uploading = @ \ {call}]))
    /\ UNCHANGED <<fillVars, an, ex, norm, pollInterval, fetches, downloads,
                   restarted>>

NextUpload ==
    \/ \E files \in FileLists(uploadLog.offered) : HandleFiles(files)
    \/ \E call \in uploading, ok \in BOOLEAN : UploadSettled(call, ok)
    \/ \E call \in uploading : DelayDone(call)

SpecUpload == Init /\ [][NextUpload]_vars

\* SpecUpload where every upload request ends and every delay is over at
\* some time
FairSpecUpload ==
    /\ SpecUpload
    /\ WF_vars(\E call \in uploading, ok \in BOOLEAN : UploadSettled(call, ok))
    /\ WF_vars(\E call \in uploading : DelayDone(call))

\* s is the beginning of t
IsPrefix(s, t) == Len(s) <= Len(t) /\ SubSeq(t, 1, Len(s)) = s

\* C36: the upload queue has at most one upload request in flight at any
\* time; the files are uploaded in the order they were queued, each at most
\* once; when processUploadQueue is not running every queued file has been
\* uploaded; and every file that passed validation is uploaded at some time,
\* whether it was added while processUploadQueue was running or not and
\* whether uploads before it failed or not.
C36_UploadQueue ==
    /\ [](Cardinality(uploading) <= 1)
    /\ [](IsPrefix(uploadLog.sent, uploadLog.queued))
    /\ [](\A i, k \in DOMAIN uploadLog.queued : i < k => uploadLog.queued[i] < uploadLog.queued[k])
    /\ [](~isUploading => uploadLog.sent = uploadLog.queued /\ uploading = {})
    /\ []<>(uploadLog.sent = uploadLog.queued)

\* a file was added while processUploadQueue was running, an upload failed,
\* and both that file and a file queued after the failed one were uploaded
C36_Witness ==
    /\ \E f \in uploadLog.late : \E i \in DOMAIN uploadLog.sent : uploadLog.sent[i] = f
    /\ \E i, k \in DOMAIN uploadLog.sent :
          i < k /\ uploadLog.sent[i] \in uploadLog.failed
    /\ ~isUploading
    /\ Len(uploadLog.queued) = MaxFiles

\* C34: for each started fill job the page triggers the download of the
\* filled workbook at most once, also when several poll callbacks are in
\* flight when the job becomes complete.
C34_DownloadAtMostOnce ==
    \A j \in DOMAIN downloads : downloads[j] <= 1

\* C35: the progress poller started by fillExcelWorkbook eventually stops:
\* when it observes complete or error, and also when the progress endpoint
\* answers not found for the polled jobId; it never keeps polling for ever.
C35_PollerStops ==
    (pollInterval.state = "set") ~> (pollInterval.state = "cleared")

TypeOK ==
    /\ DOMAIN fillJobs = DOMAIN task
    /\ \A j \in DOMAIN fillJobs : fillJobs[j].status \in {"processing", "complete", "error"}

====
